---- MODULE Spec2Model ----
(***************************************************************************)
(* The LSP proxy of csharp_roslyn (proxy/src): the framed JSON-RPC message *)
(* model, the id mapper, the middleware pipeline with its concrete         *)
(* middlewares, and the router's two loops.                                *)
(*                                                                         *)
(* Router::run polls both loops inside one tokio::select!, so the code     *)
(* between two .await points of a loop runs without interleaving.  Each    *)
(* action below is one such stretch: a read with the synchronous pipeline  *)
(* call that follows it, a lock acquisition, or one write.                 *)
(***************************************************************************)
EXTENDS Integers, Sequences, FiniteSets, TLC

\* ------------------------------------------------------------------ bounds
\* Messages the client / the server may send in one run.
MaxClientMsgs == 2
MaxServerMsgs == 2
\* Messages the server may send in a run of restore cycles.
MaxCycleMsgs == 4

\* ------------------------------------------------------- program constants
\* IdMapper::new: next_id starts at 1.
FirstServerId == 1
\* ProjectRestoreMiddleware::new: request_id starts at 90000.
FirstRestoreId == 90000

\* --------------------------------------------------------------- MessageId
\* enum MessageId { Number(i64), String(String) }; NoId is the absence of an
\* id (a notification).
Number(n) == [variant |-> "Number", num |-> n, str |-> ""]
String(s) == [variant |-> "String", num |-> 0, str |-> s]
NoId == [variant |-> "None", num |-> 0, str |-> ""]

\* ------------------------------------------------------------ JSON payload
\* serde_json::Value / Option<Value>, by the members the middlewares read.
\* shape "absent" is a missing member on the wire and None in memory;
\* shape "null" is JSON null.  `tag` names an opaque payload; `id` is the
\* "id" member of the params of $/cancelRequest.
AbsentV == [shape |-> "absent", tag |-> "", root |-> "", tdUri |-> "",
            tdVersion |-> -1, uuid |-> "", uri |-> "", text |-> "",
            list |-> <<>>, id |-> NoId]
NullV == [AbsentV EXCEPT !.shape = "null"]
ObjectV(t) == [AbsentV EXCEPT !.shape = "object", !.tag = t]
ArrayV(l) == [AbsentV EXCEPT !.shape = "array", !.list = l]

\* json!({"kind": "full", "items": []})
FullEmptyReport == ObjectV("kind=full,items=[]")
\* json!({"needed_restore": b})
NeededRestore(b) == ObjectV(IF b THEN "needed_restore=true" ELSE "needed_restore=false")

\* ----------------------------------------------------------------- Message
\* enum Message { Request, Response, Notification }.  One record shape for
\* the three variants; `error` is "" for None.
Request(i, m, p) ==
    [kind |-> "Request", id |-> i, method |-> m, params |-> p,
     result |-> AbsentV, error |-> ""]
Response(i, r, e) ==
    [kind |-> "Response", id |-> i, method |-> "", params |-> AbsentV,
     result |-> r, error |-> e]
Notification(m, p) ==
    [kind |-> "Notification", id |-> NoId, method |-> m, params |-> p,
     result |-> AbsentV, error |-> ""]

\* Option<Value> deserialization: a member that is JSON null reads as None,
\* like a missing member.
DeserializeOption(v) == IF v.shape = "null" THEN AbsentV ELSE v

\* serde_json::from_slice::<Message>: the untagged enum with Option fields.
Deserialize(w) ==
    [w EXCEPT !.params = DeserializeOption(w.params),
              !.result = DeserializeOption(w.result)]

\* serde_json::to_vec(message): params and error carry
\* skip_serializing_if = "Option::is_none"; ResponseMessage::result does not,
\* so a None result is written as "result": null.
SerializeResult(v) == IF v.shape = "absent" THEN NullV ELSE v

Serialize(m) ==
    IF m.kind = "Response" THEN [m EXCEPT !.result = SerializeResult(m.result)]
    ELSE m

\* ---------------------------------------------------------------- DashMap
MapPut(f, k, v) == [x \in (DOMAIN f) \cup {k} |-> IF x = k THEN v ELSE f[x]]
MapDel(f, k) == [x \in (DOMAIN f) \ {k} |-> f[x]]
EmptyMap == [x \in {} |-> NoId]

\* ---------------------------------------------------------------- IdMapper
\* struct IdMapper { next_id, client_to_server, server_to_client }
IdMapperNew ==
    [next_id |-> FirstServerId, client_to_server |-> EmptyMap,
     server_to_client |-> EmptyMap]

\* A plausible slip: the lookup of an existing mapping is left out.
map_client_id_always_allocates(im, client_id) ==
    LET server_id == Number(im.next_id) IN
    [ret |-> server_id,
     im |-> [next_id |-> im.next_id + 1,
             client_to_server |-> MapPut(im.client_to_server, client_id, server_id),
             server_to_client |-> MapPut(im.server_to_client, server_id, client_id)]]

\* A plausible slip: the counter is read but not advanced.
map_client_id_no_advance(im, client_id) ==
    IF client_id \in DOMAIN im.client_to_server
    THEN [ret |-> im.client_to_server[client_id], im |-> im]
    ELSE LET server_id == Number(im.next_id) IN
         [ret |-> server_id,
          im |-> [im EXCEPT
                  !.client_to_server = MapPut(im.client_to_server, client_id, server_id),
                  !.server_to_client = MapPut(im.server_to_client, server_id, client_id)]]

\* A plausible slip: the counter advances by two.
map_client_id_skips(im, client_id) ==
    IF client_id \in DOMAIN im.client_to_server
    THEN [ret |-> im.client_to_server[client_id], im |-> im]
    ELSE LET server_id == Number(im.next_id) IN
         [ret |-> server_id,
          im |-> [next_id |-> im.next_id + 2,
                  client_to_server |-> MapPut(im.client_to_server, client_id, server_id),
                  server_to_client |-> MapPut(im.server_to_client, server_id, client_id)]]

\* IdMapper::map_client_id: the returned id and the mapper afterwards.
map_client_id(im, client_id) ==
    IF client_id \in DOMAIN im.client_to_server
    THEN [ret |-> im.client_to_server[client_id], im |-> im]
    ELSE LET server_id == Number(im.next_id) IN
         [ret |-> server_id,
          im |-> [next_id |-> im.next_id + 1,
                  client_to_server |-> MapPut(im.client_to_server, client_id, server_id),
                  server_to_client |-> MapPut(im.server_to_client, server_id, client_id)]]

\* IdMapper::get_client_id: Some(id) or None (NoId).
get_client_id(im, server_id) ==
    IF server_id \in DOMAIN im.server_to_client
    THEN im.server_to_client[server_id] ELSE NoId

\* A plausible slip: only the server_to_client entry is removed.
remove_one_direction(im, server_id) ==
    [im EXCEPT !.server_to_client = MapDel(im.server_to_client, server_id)]

\* IdMapper::remove
remove(im, server_id) ==
    IF server_id \in DOMAIN im.server_to_client
    THEN [im EXCEPT
          !.server_to_client = MapDel(im.server_to_client, server_id),
          !.client_to_server =
              MapDel(im.client_to_server, im.server_to_client[server_id])]
    ELSE im

\* ------------------------------------------------------------------ Action
\* enum Action { Continue, Block, Replace(M), Inject(Vec<M>), RespondAndContinue(M) }
Continue == [tag |-> "Continue", msgs |-> <<>>]
Block == [tag |-> "Block", msgs |-> <<>>]
Replace(m) == [tag |-> "Replace", msgs |-> <<m>>]
Inject(ms) == [tag |-> "Inject", msgs |-> ms]
RespondAndContinue(m) == [tag |-> "RespondAndContinue", msgs |-> <<m>>]

\* What a hook returns: Ok(action) and the middleware state it leaves.
Ok(a, st) == [action |-> a, st |-> st]
\* Err(anyhow::Error) from a hook; the state is what the hook left.
Err(st) == [action |-> [tag |-> "Err", msgs |-> <<>>], st |-> st]

\* ------------------------------------------------------------- environment
\* The documents and the solution on disk.  str::ends_with(".cs") and
\* str::starts_with are decided over this universe of names.
UriA == "file:///ws/A.cs"
UriReadme == "file:///ws/README.md"
Uris == {UriA, UriReadme}
EndsWithCs(uri) == uri \in {UriA}
WorkspaceRoot == "/ws"

\* ------------------------------------------------------- middleware state
\* The fields of the stateful middlewares, as the pipeline holds them.
MiddlewareNew ==
    [opened_documents |-> {},
     workspace_root |-> "",
     solution_opened |-> FALSE,
     pending_cs_files |-> <<>>,
     request_id |-> FirstRestoreId,
     in_progress |-> FALSE,
     pending_uuids |-> {},
     diagnostic_requests |-> {}]

\* ----------------------------------------------- DocumentLifecycleMiddleware
\* extract_uri_from_request: params.textDocument.uri of a request, "" if none.
extract_uri_from_request(message) ==
    IF message.kind = "Request" /\ message.params.shape = "object"
    THEN message.params.tdUri ELSE ""

\* create_did_open_notification: None (AbsentV-like "no message") when the
\* file cannot be read; found[1] tells which.
create_did_open_notification(uri, disk) ==
    IF uri \in disk.readable
    THEN <<TRUE, Notification("textDocument/didOpen",
                 [ObjectV("languageId=csharp,text=disk") EXCEPT
                      !.tdUri = uri, !.tdVersion = 0])>>
    ELSE <<FALSE, Notification("", AbsentV)>>

\* A plausible slip: the synthesized didOpen is returned without recording
\* the document as open.
DocumentLifecycle_client_forgets(message, st, disk) ==
    IF message.kind = "Request"
       /\ extract_uri_from_request(message) # ""
       /\ extract_uri_from_request(message) \notin st.opened_documents
       /\ EndsWithCs(extract_uri_from_request(message))
       /\ create_did_open_notification(extract_uri_from_request(message), disk)[1]
    THEN Ok(Inject(<<create_did_open_notification(
                        extract_uri_from_request(message), disk)[2]>>), st)
    ELSE Ok(Continue, st)

\* A plausible slip: the document is recorded as open before the didOpen is
\* built, so a failed synthesis leaves it recorded.
DocumentLifecycle_client_records_first(message, st, disk) ==
    LET uri == extract_uri_from_request(message)
        did_open == create_did_open_notification(uri, disk)
    IN
    IF message.kind = "Notification"
    THEN IF message.method = "textDocument/didOpen"
            /\ message.params.shape = "object" /\ message.params.tdUri # ""
            /\ message.params.tdVersion >= 0
         THEN Ok(Continue, [st EXCEPT !.opened_documents = @ \cup {message.params.tdUri}])
         ELSE IF message.method = "textDocument/didClose"
                 /\ message.params.shape = "object" /\ message.params.tdUri # ""
         THEN Ok(Continue, [st EXCEPT !.opened_documents = @ \ {message.params.tdUri}])
         ELSE Ok(Continue, st)
    ELSE IF message.kind = "Request" /\ uri # ""
            /\ uri \notin st.opened_documents /\ EndsWithCs(uri)
    THEN IF did_open[1]
         THEN Ok(Inject(<<did_open[2]>>), [st EXCEPT !.opened_documents = @ \cup {uri}])
         ELSE Ok(Continue, [st EXCEPT !.opened_documents = @ \cup {uri}])
    ELSE Ok(Continue, st)

\* DocumentLifecycleMiddleware::process_client_message
DocumentLifecycle_client(message, st, disk) ==
    LET uri == extract_uri_from_request(message)
        did_open == create_did_open_notification(uri, disk)
    IN
    IF message.kind = "Notification"
    THEN IF message.method = "textDocument/didOpen"
            /\ message.params.shape = "object" /\ message.params.tdUri # ""
            /\ message.params.tdVersion >= 0
         THEN Ok(Continue, [st EXCEPT !.opened_documents = @ \cup {message.params.tdUri}])
         ELSE IF message.method = "textDocument/didClose"
                 /\ message.params.shape = "object" /\ message.params.tdUri # ""
         THEN Ok(Continue, [st EXCEPT !.opened_documents = @ \ {message.params.tdUri}])
         ELSE Ok(Continue, st)
    ELSE IF message.kind = "Request" /\ uri # ""
            /\ uri \notin st.opened_documents /\ EndsWithCs(uri) /\ did_open[1]
    THEN Ok(Inject(<<did_open[2]>>), [st EXCEPT !.opened_documents = @ \cup {uri}])
    ELSE Ok(Continue, st)

\* -------------------------------------------------- SolutionLoaderMiddleware
\* extract_workspace_root: rootUri / rootPath of an initialize request.
extract_workspace_root(message) ==
    IF message.kind = "Request" /\ message.method = "initialize"
       /\ message.params.shape = "object"
    THEN message.params.root ELSE ""

\* A plausible slip: project/open is pushed before solution/open.
create_solution_and_project_notifications_project_first(disk) ==
    (IF disk.solution = "valid"
     THEN <<Notification("project/open", ObjectV("projects=[file:///ws/App.csproj]"))>>
     ELSE <<>>)
    \o <<Notification("solution/open", ObjectV("solution=file:///ws/App.sln"))>>

\* create_solution_and_project_notifications: solution/open, then
\* project/open when the solution lists a .csproj.
create_solution_and_project_notifications(disk) ==
    <<Notification("solution/open", ObjectV("solution=file:///ws/App.sln"))>>
    \o (IF disk.solution = "valid"
        THEN <<Notification("project/open", ObjectV("projects=[file:///ws/App.csproj]"))>>
        ELSE <<>>)

\* SolutionLoaderMiddleware::process_client_message.  disk.solution is
\* "none" (find_solution_file finds nothing), "invalid" (validate_solution
\* fails), "noproj" (valid, no .csproj entry) or "valid".
SolutionLoader_client(message, st, disk) ==
    LET root == extract_workspace_root(message)
        st1 == IF root # "" THEN [st EXCEPT !.workspace_root = root] ELSE st
    IN
    IF message.kind = "Notification" /\ message.method = "initialized"
       /\ st1.workspace_root # "" /\ disk.solution \in {"noproj", "valid"}
    THEN Ok(Inject(create_solution_and_project_notifications(disk)),
            [st1 EXCEPT !.solution_opened = TRUE])
    ELSE IF message.kind = "Notification" /\ message.method = "textDocument/didOpen"
            /\ message.params.shape = "object" /\ EndsWithCs(message.params.tdUri)
            /\ ~st1.solution_opened
    THEN Ok(Block, [st1 EXCEPT !.pending_cs_files = Append(@, message)])
    ELSE Ok(Continue, st1)

\* SolutionLoaderMiddleware::process_server_message
SolutionLoader_server(message, st) ==
    IF message.kind = "Notification"
       /\ message.method = "workspace/projectInitializationComplete"
       /\ st.pending_cs_files # <<>>
    THEN Ok(Inject(st.pending_cs_files), [st EXCEPT !.pending_cs_files = <<>>])
    ELSE Ok(Continue, st)

\* -------------------------------------------------- ProjectRestoreMiddleware
\* The "UUID" string member of params, "" when params or the member is missing.
uuid_of(message) ==
    IF message.params.shape = "object" THEN message.params.uuid ELSE ""

\* transform_project_paths(..).or_else(|| params.clone()): the request's
\* params keep the UUID; projectFilePaths are resolved to project files.
restore_params(params) ==
    IF params.shape = "object" /\ params.tag = "projectFilePaths"
    THEN [params EXCEPT !.tag = "projectFilePaths:resolved"]
    ELSE params

\* A plausible slip: neither the UUID set nor in_progress is consulted or
\* updated, so every needsRestore notification injects a restore.
ProjectRestore_server_no_dedup(message, st) ==
    IF message.kind = "Notification"
       /\ message.method = "workspace/_roslyn_projectNeedsRestore"
    THEN Ok(Inject(<<Request(Number(st.request_id), "workspace/_roslyn_restore",
                             restore_params(message.params))>>),
            [st EXCEPT !.request_id = @ + 1])
    ELSE Ok(Continue, st)

\* A plausible slip: restoreComplete clears in_progress but leaves the UUID in
\* pending_uuids.
ProjectRestore_server_keeps_uuid(message, st) ==
    IF message.kind = "Notification"
       /\ message.method = "workspace/_roslyn_projectNeedsRestore"
    THEN IF uuid_of(message) # "" /\ uuid_of(message) \in st.pending_uuids
         THEN Ok(Block, st)
         ELSE IF st.in_progress
         THEN Ok(Block, [st EXCEPT !.pending_uuids = @ \cup {uuid_of(message)}])
         ELSE Ok(Inject(<<Request(Number(st.request_id), "workspace/_roslyn_restore",
                                  restore_params(message.params))>>),
                 [st EXCEPT !.pending_uuids = @ \cup {uuid_of(message)},
                            !.in_progress = TRUE, !.request_id = @ + 1])
    ELSE IF message.kind = "Notification"
            /\ message.method = "workspace/_roslyn_restoreComplete"
    THEN Ok(Continue, [st EXCEPT !.in_progress = FALSE])
    ELSE Ok(Continue, st)

\* A plausible slip: the request variant is answered needed_restore false in
\* every state.
ProjectRestore_server_always_false(message, st) ==
    LET uuid == uuid_of(message)
        seen == uuid # "" /\ uuid \in st.pending_uuids
        st1 == IF uuid # "" THEN [st EXCEPT !.pending_uuids = @ \cup {uuid}] ELSE st
    IN
    IF message.kind = "Request"
       /\ message.method = "workspace/_roslyn_projectNeedsRestore"
    THEN IF seen
         THEN Ok(Replace(Response(message.id, NeededRestore(FALSE), "")), st)
         ELSE IF st1.in_progress
         THEN Ok(Replace(Response(message.id, NeededRestore(FALSE), "")), st1)
         ELSE Ok(Replace(Response(message.id, NeededRestore(FALSE), "")),
                 [st1 EXCEPT !.in_progress = TRUE])
    ELSE IF message.kind = "Notification"
            /\ message.method = "workspace/_roslyn_projectNeedsRestore"
    THEN IF seen
         THEN Ok(Block, st)
         ELSE IF st1.in_progress
         THEN Ok(Block, st1)
         ELSE Ok(Inject(<<Request(Number(st1.request_id), "workspace/_roslyn_restore",
                                  restore_params(message.params))>>),
                 [st1 EXCEPT !.in_progress = TRUE, !.request_id = @ + 1])
    ELSE IF message.kind = "Notification"
            /\ message.method = "workspace/_roslyn_restoreComplete"
    THEN Ok(Continue, [st EXCEPT !.in_progress = FALSE,
                                 !.pending_uuids = @ \ {uuid}])
    ELSE Ok(Continue, st)

\* ProjectRestoreMiddleware::process_server_message
ProjectRestore_server(message, st) ==
    LET uuid == uuid_of(message)
        seen == uuid # "" /\ uuid \in st.pending_uuids
        st1 == IF uuid # "" THEN [st EXCEPT !.pending_uuids = @ \cup {uuid}] ELSE st
    IN
    IF message.kind = "Request"
       /\ message.method = "workspace/_roslyn_projectNeedsRestore"
    THEN IF seen
         THEN Ok(Replace(Response(message.id, NeededRestore(FALSE), "")), st)
         ELSE IF st1.in_progress
         THEN Ok(Replace(Response(message.id, NeededRestore(FALSE), "")), st1)
         ELSE Ok(Replace(Response(message.id, NeededRestore(TRUE), "")),
                 [st1 EXCEPT !.in_progress = TRUE])
    ELSE IF message.kind = "Notification"
            /\ message.method = "workspace/_roslyn_projectNeedsRestore"
    THEN IF seen
         THEN Ok(Block, st)
         ELSE IF st1.in_progress
         THEN Ok(Block, st1)
         ELSE Ok(Inject(<<Request(Number(st1.request_id), "workspace/_roslyn_restore",
                                  restore_params(message.params))>>),
                 [st1 EXCEPT !.in_progress = TRUE, !.request_id = @ + 1])
    ELSE IF message.kind = "Notification"
            /\ message.method = "workspace/_roslyn_restoreComplete"
    THEN Ok(Continue, [st EXCEPT !.in_progress = FALSE,
                                 !.pending_uuids = @ \ {uuid}])
    ELSE Ok(Continue, st)

\* --------------------------------------------------- ConfigurationMiddleware
\* The match of handle_configuration_request, by the literal it answers.
ConfigTrue ==
    {"csharp|symbol_search.dotnet_search_reference_assemblies",
     "visual_basic|symbol_search.dotnet_search_reference_assemblies",
     "navigation.dotnet_navigate_to_decompiled_sources",
     "navigation.dotnet_navigate_to_source_link_and_embedded_sources",
     "csharp|completion.dotnet_show_completion_items_from_unimported_namespaces",
     "visual_basic|completion.dotnet_show_completion_items_from_unimported_namespaces",
     "csharp|completion.dotnet_trigger_completion_in_argument_lists",
     "visual_basic|completion.dotnet_trigger_completion_in_argument_lists",
     "csharp|quick_info.dotnet_show_remarks_in_quick_info",
     "visual_basic|quick_info.dotnet_show_remarks_in_quick_info",
     "projects.dotnet_enable_automatic_restore",
     "projects.dotnet_enable_file_based_programs",
     "csharp|inlay_hints.dotnet_enable_inlay_hints_for_parameters",
     "visual_basic|inlay_hints.dotnet_enable_inlay_hints_for_parameters",
     "csharp|inlay_hints.dotnet_enable_inlay_hints_for_literal_parameters",
     "visual_basic|inlay_hints.dotnet_enable_inlay_hints_for_literal_parameters",
     "csharp|inlay_hints.dotnet_enable_inlay_hints_for_indexer_parameters",
     "visual_basic|inlay_hints.dotnet_enable_inlay_hints_for_indexer_parameters",
     "csharp|inlay_hints.dotnet_enable_inlay_hints_for_object_creation_parameters",
     "visual_basic|inlay_hints.dotnet_enable_inlay_hints_for_object_creation_parameters",
     "csharp|inlay_hints.dotnet_enable_inlay_hints_for_other_parameters",
     "visual_basic|inlay_hints.dotnet_enable_inlay_hints_for_other_parameters",
     "csharp|inlay_hints.csharp_enable_inlay_hints_for_types",
     "visual_basic|inlay_hints.csharp_enable_inlay_hints_for_types",
     "csharp|inlay_hints.csharp_enable_inlay_hints_for_implicit_variable_types",
     "visual_basic|inlay_hints.csharp_enable_inlay_hints_for_implicit_variable_types",
     "csharp|inlay_hints.csharp_enable_inlay_hints_for_lambda_parameter_types",
     "visual_basic|inlay_hints.csharp_enable_inlay_hints_for_lambda_parameter_types",
     "csharp|inlay_hints.csharp_enable_inlay_hints_for_implicit_object_creation",
     "visual_basic|inlay_hints.csharp_enable_inlay_hints_for_implicit_object_creation",
     "csharp|inlay_hints.csharp_enable_inlay_hints_for_collection_expressions",
     "visual_basic|inlay_hints.csharp_enable_inlay_hints_for_collection_expressions"}
ConfigFour ==
    {"csharp|code_style.formatting.indentation_and_spacing.tab_width",
     "visual_basic|code_style.formatting.indentation_and_spacing.tab_width",
     "csharp|code_style.formatting.indentation_and_spacing.indent_size",
     "visual_basic|code_style.formatting.indentation_and_spacing.indent_size"}
ConfigSpace ==
    {"csharp|code_style.formatting.indentation_and_spacing.indent_style",
     "visual_basic|code_style.formatting.indentation_and_spacing.indent_style"}
ConfigOpenFiles ==
    {"csharp|background_analysis.dotnet_analyzer_diagnostics_scope",
     "visual_basic|background_analysis.dotnet_analyzer_diagnostics_scope",
     "csharp|background_analysis.dotnet_compiler_diagnostics_scope",
     "visual_basic|background_analysis.dotnet_compiler_diagnostics_scope"}
ConfigFalse ==
    {"csharp|inlay_hints.dotnet_suppress_inlay_hints_for_parameters_that_differ_only_by_suffix",
     "visual_basic|inlay_hints.dotnet_suppress_inlay_hints_for_parameters_that_differ_only_by_suffix",
     "csharp|inlay_hints.dotnet_suppress_inlay_hints_for_parameters_that_match_method_intent",
     "visual_basic|inlay_hints.dotnet_suppress_inlay_hints_for_parameters_that_match_method_intent",
     "csharp|inlay_hints.dotnet_suppress_inlay_hints_for_parameters_that_match_argument_name",
     "visual_basic|inlay_hints.dotnet_suppress_inlay_hints_for_parameters_that_match_argument_name"}

\* One item's answer, as its JSON text.  An item without a string "section"
\* is looked up as "".
config_answer(section) ==
    IF section \in ConfigTrue THEN "true"
    ELSE IF section \in ConfigFour THEN "4"
    ELSE IF section \in ConfigSpace THEN "\"space\""
    ELSE IF section \in ConfigOpenFiles THEN "\"openFiles\""
    ELSE IF section \in ConfigFalse THEN "false"
    ELSE "null"

\* handle_configuration_request: params.items (params.list of an object
\* tagged "items") answered one by one.
handle_configuration_request(id, params) ==
    Response(id, ArrayV([i \in 1..Len(params.list) |-> config_answer(params.list[i])]), "")

\* A plausible slip: the answer is returned as RespondAndContinue, so the
\* request itself stays the current message.
Configuration_server_responds_and_continues(message, st) ==
    IF message.kind = "Request" /\ message.method = "workspace/configuration"
       /\ message.params.shape = "object" /\ message.params.tag = "items"
    THEN Ok(RespondAndContinue(handle_configuration_request(message.id, message.params)), st)
    ELSE Ok(Continue, st)

\* ConfigurationMiddleware::process_server_message
Configuration_server(message, st) ==
    IF message.kind = "Request" /\ message.method = "workspace/configuration"
       /\ message.params.shape = "object" /\ message.params.tag = "items"
    THEN Ok(Replace(handle_configuration_request(message.id, message.params)), st)
    ELSE Ok(Continue, st)

\* ------------------------------------------ CapabilityRegistrationMiddleware
\* CapabilityRegistrationMiddleware::process_server_message
CapabilityRegistration_server(message, st) ==
    IF message.kind = "Request" /\ message.method = "client/registerCapability"
    THEN Ok(Replace(Response(message.id, NullV, "")), st)
    ELSE Ok(Continue, st)

\* ----------------------------------------------------- DiagnosticsMiddleware
\* DiagnosticsMiddleware::process_client_message
Diagnostics_client(message, st) ==
    IF message.kind = "Request" /\ message.method = "textDocument/diagnostic"
    THEN Ok(Continue, [st EXCEPT !.diagnostic_requests = @ \cup {message.id}])
    ELSE Ok(Continue, st)

\* A plausible slip: the null result is left as it is.
Diagnostics_server_no_fill(message, st) ==
    IF message.kind = "Response" /\ message.id \in st.diagnostic_requests
    THEN Ok(Continue, [st EXCEPT !.diagnostic_requests = @ \ {message.id}])
    ELSE Ok(Continue, st)

\* DiagnosticsMiddleware::process_server_message
Diagnostics_server(message, st) ==
    IF message.kind = "Response" /\ message.id \in st.diagnostic_requests
    THEN IF message.result.shape \in {"absent", "null"}
         THEN Ok(Replace([message EXCEPT !.result = FullEmptyReport]),
                 [st EXCEPT !.diagnostic_requests = @ \ {message.id}])
         ELSE Ok(Continue, [st EXCEPT !.diagnostic_requests = @ \ {message.id}])
    ELSE Ok(Continue, st)

\* --------------------------------------------------------- RefreshMiddleware
REFRESH_METHODS ==
    {"workspace/diagnostic/refresh", "workspace/codeLens/refresh",
     "workspace/inlayHint/refresh", "workspace/semanticTokens/refresh"}

\* RefreshMiddleware::should_fix_params
should_fix_params(params) == params.shape \in {"array", "null"}

\* A plausible slip: only notifications are normalised, requests are not.
Refresh_server_notifications_only(message, st) ==
    IF message.kind = "Notification"
       /\ message.method \in REFRESH_METHODS /\ should_fix_params(message.params)
    THEN Ok(Replace([message EXCEPT !.params = AbsentV]), st)
    ELSE Ok(Continue, st)

\* RefreshMiddleware::process_server_message
Refresh_server(message, st) ==
    IF message.kind \in {"Request", "Notification"}
       /\ message.method \in REFRESH_METHODS /\ should_fix_params(message.params)
    THEN Ok(Replace([message EXCEPT !.params = AbsentV]), st)
    ELSE Ok(Continue, st)

\* --------------------------------------------- CustomNotificationsMiddleware
\* is_roslyn_custom_notification, over the methods of this model: those that
\* start with "workspace/_roslyn_" or "roslyn/", and
\* workspace/projectInitializationComplete.
is_roslyn_custom_notification(method) ==
    method \in {"workspace/_roslyn_projectNeedsRestore",
                "workspace/_roslyn_restoreComplete",
                "workspace/_roslyn_restore",
                "workspace/_roslyn_openDocument",
                "roslyn/beginMetadataAsSource", "roslyn/endMetadataAsSource",
                "workspace/projectInitializationComplete"}

\* A plausible slip: no method is blocked.
should_block_notification_none(method) == FALSE

should_block_notification(method) == method = "workspace/_roslyn_projectNeedsRestore"

should_convert_notification(method) == method = "workspace/_roslyn_openDocument"

should_log_notification(method) ==
    method \in {"roslyn/beginMetadataAsSource", "roslyn/endMetadataAsSource"}

\* A plausible slip: only the uri is required.
convert_open_document_uri_only(notif) ==
    IF notif.params.shape = "object" /\ notif.params.uri # ""
    THEN <<TRUE, Notification("textDocument/didOpen",
                 [ObjectV("languageId=csharp") EXCEPT
                      !.tdUri = notif.params.uri, !.tdVersion = 1,
                      !.text = notif.params.text])>>
    ELSE <<FALSE, Notification("", AbsentV)>>

\* convert_open_document: found[1] is FALSE when params, uri or text is missing.
convert_open_document(notif) ==
    IF notif.params.shape = "object" /\ notif.params.uri # "" /\ notif.params.text # ""
    THEN <<TRUE, Notification("textDocument/didOpen",
                 [ObjectV("languageId=csharp") EXCEPT
                      !.tdUri = notif.params.uri, !.tdVersion = 1,
                      !.text = notif.params.text])>>
    ELSE <<FALSE, Notification("", AbsentV)>>

\* CustomNotificationsMiddleware::process_server_message
Custom_server(message, st) ==
    IF message.kind = "Request"
    THEN IF is_roslyn_custom_notification(message.method)
            /\ should_block_notification(message.method)
         THEN Ok(Block, st) ELSE Ok(Continue, st)
    ELSE IF message.kind = "Notification"
            /\ is_roslyn_custom_notification(message.method)
    THEN IF should_block_notification(message.method) THEN Ok(Block, st)
         ELSE IF should_log_notification(message.method) THEN Ok(Continue, st)
         ELSE IF should_convert_notification(message.method)
         THEN IF convert_open_document(message)[1]
              THEN Ok(Replace(convert_open_document(message)[2]), st)
              ELSE Ok(Block, st)
         ELSE Ok(Continue, st)
    ELSE Ok(Continue, st)

\* -------------------------------------------------------- MiddlewarePipeline
\* main: the pipeline in the order of its .add calls.
Middlewares ==
    <<"initialization", "DocumentLifecycle", "solution_loader", "ProjectRestore",
      "ConfigurationMiddleware", "CapabilityRegistration", "DefinitionLogger",
      "diagnostics", "InlayHints", "refresh", "custom-notifications">>

\* trait Middleware lets a hook return any Action or an error.  Besides the
\* middlewares of main, a pipeline can hold "failing", whose hooks return
\* Err, and "responding", whose hooks return RespondAndContinue(StubMessage).
StubMessage == Notification("$/stub", AbsentV)

\* Middleware::process_client_message of the middleware called `name`; those
\* not listed return Ok(Action::Continue).
ClientHook(name, message, st, disk) ==
    IF name = "DocumentLifecycle" THEN DocumentLifecycle_client(message, st, disk)
    ELSE IF name = "solution_loader" THEN SolutionLoader_client(message, st, disk)
    ELSE IF name = "diagnostics" THEN Diagnostics_client(message, st)
    ELSE IF name = "failing" THEN Err(st)
    ELSE IF name = "responding" THEN Ok(RespondAndContinue(StubMessage), st)
    ELSE Ok(Continue, st)

\* Middleware::process_server_message of the middleware called `name`.
ServerHook(name, message, st) ==
    IF name = "solution_loader" THEN SolutionLoader_server(message, st)
    ELSE IF name = "ProjectRestore" THEN ProjectRestore_server(message, st)
    ELSE IF name = "ConfigurationMiddleware" THEN Configuration_server(message, st)
    ELSE IF name = "CapabilityRegistration" THEN CapabilityRegistration_server(message, st)
    ELSE IF name = "diagnostics" THEN Diagnostics_server(message, st)
    ELSE IF name = "refresh" THEN Refresh_server(message, st)
    ELSE IF name = "custom-notifications" THEN Custom_server(message, st)
    ELSE IF name = "failing" THEN Err(st)
    ELSE IF name = "responding" THEN Ok(RespondAndContinue(StubMessage), st)
    ELSE Ok(Continue, st)

\* A plausible slip: what a middleware injects is put in front of what the
\* earlier ones injected.
RECURSIVE process_from_prepends(_, _, _, _, _, _, _)
process_from_prepends(dir, mws, i, current, responses, st, disk) ==
    IF i > Len(mws)
    THEN [ok |-> TRUE, some |-> TRUE, current |-> current,
          responses |-> responses, st |-> st]
    ELSE LET r == IF dir = "client" THEN ClientHook(mws[i], current, st, disk)
                  ELSE ServerHook(mws[i], current, st)
             a == r.action
         IN
         IF a.tag = "Err"
         THEN [ok |-> FALSE, some |-> FALSE, current |-> current,
               responses |-> <<>>, st |-> r.st]
         ELSE IF a.tag = "Block"
         THEN [ok |-> TRUE, some |-> FALSE, current |-> current,
               responses |-> responses, st |-> r.st]
         ELSE IF a.tag = "Replace"
         THEN process_from_prepends(dir, mws, i + 1, a.msgs[1], responses, r.st, disk)
         ELSE IF a.tag \in {"Inject", "RespondAndContinue"}
         THEN process_from_prepends(dir, mws, i + 1, current, a.msgs \o responses,
                                    r.st, disk)
         ELSE process_from_prepends(dir, mws, i + 1, current, responses, r.st, disk)

\* A plausible slip: Block drops the message but the loop goes on, so the
\* later middlewares still see it.
RECURSIVE process_from_block_goes_on(_, _, _, _, _, _, _)
process_from_block_goes_on(dir, mws, i, current, responses, st, disk) ==
    IF i > Len(mws)
    THEN [ok |-> TRUE, some |-> TRUE, current |-> current,
          responses |-> responses, st |-> st]
    ELSE LET r == IF dir = "client" THEN ClientHook(mws[i], current, st, disk)
                  ELSE ServerHook(mws[i], current, st)
             a == r.action
         IN
         IF a.tag = "Err"
         THEN [ok |-> FALSE, some |-> FALSE, current |-> current,
               responses |-> <<>>, st |-> r.st]
         ELSE IF a.tag = "Block"
         THEN [process_from_block_goes_on(dir, mws, i + 1, current, responses,
                                          r.st, disk) EXCEPT !.some = FALSE]
         ELSE IF a.tag = "Replace"
         THEN process_from_block_goes_on(dir, mws, i + 1, a.msgs[1], responses,
                                         r.st, disk)
         ELSE IF a.tag \in {"Inject", "RespondAndContinue"}
         THEN process_from_block_goes_on(dir, mws, i + 1, current,
                                         responses \o a.msgs, r.st, disk)
         ELSE process_from_block_goes_on(dir, mws, i + 1, current, responses,
                                         r.st, disk)

\* The loop body of process_client_message / process_server_message: what
\* one returned action does to (current, responses), from middleware i on.
\* The result is Ok((Some(current) | None, responses)) or Err (ok is FALSE
\* and only `st` means anything: `?` returns the error alone), and the
\* state left.
RECURSIVE process_from(_, _, _, _, _, _, _)
process_from(dir, mws, i, current, responses, st, disk) ==
    IF i > Len(mws)
    THEN [ok |-> TRUE, some |-> TRUE, current |-> current,
          responses |-> responses, st |-> st]
    ELSE LET r == IF dir = "client" THEN ClientHook(mws[i], current, st, disk)
                  ELSE ServerHook(mws[i], current, st)
             a == r.action
         IN
         IF a.tag = "Err"
         THEN [ok |-> FALSE, some |-> FALSE, current |-> current,
               responses |-> <<>>, st |-> r.st]
         ELSE IF a.tag = "Block"
         THEN [ok |-> TRUE, some |-> FALSE, current |-> current,
               responses |-> responses, st |-> r.st]
         ELSE IF a.tag = "Replace"
         THEN process_from(dir, mws, i + 1, a.msgs[1], responses, r.st, disk)
         ELSE IF a.tag \in {"Inject", "RespondAndContinue"}
         THEN process_from(dir, mws, i + 1, current, responses \o a.msgs, r.st, disk)
         ELSE process_from(dir, mws, i + 1, current, responses, r.st, disk)

\* MiddlewarePipeline::process_client_message
process_client_message(self, message, st, disk) ==
    process_from("client", self, 1, message, <<>>, st, disk)

\* MiddlewarePipeline::process_server_message
process_server_message(self, message, st, disk) ==
    process_from("server", self, 1, message, <<>>, st, disk)

\* -------------------------------------------------------------------- state
VARIABLES
    traffic,      \* which messages the two peers use in this run
    disk,         \* the files the middlewares find on disk
    pipeline,     \* Router::pipeline: its middlewares, in order
    id_mapper,    \* Router::id_mapper
    mw,           \* the state of the pipeline's middlewares
    lock,         \* holder of the server_writer mutex: "free", "c2s" or "s2c"
    c_pc,         \* route_client_to_server: "read", "lock" or "write"
    c_queue,      \* what it still has to write to the server
    s_pc,         \* route_server_to_client: "read", "lock", "write", "deliver"
    s_queue,      \* what it still has to write to the server
    s_route,      \* the processed message still to route, after the injections
    s_deliver,    \* the message it is writing to the client
    from_client,  \* frames read from the client, in order
    from_server,  \* frames read from the server, in order
    to_server,    \* frames written to the server, in order, with their cause
    to_client,    \* frames written to the client, in order, with their cause
    status,       \* Router::run: "running", or how it returned ("ok", "err")
    last_frame,   \* what the read that ended Router::run found on its input
    child,        \* main: server_process, "spawned" or "killed"
    exit_code,    \* main: -1 while the process runs, then its exit code
    piped_client, \* history: the pipeline's result for each client frame
    piped_server, \* history: the pipeline's result for each server frame
    mapped,       \* history: the calls of IdMapper::map_client_id
    held,         \* history: which client frame each pending_cs_files entry is
    server_stdin, \* frames in the pipe to the server that it has not read yet
    server_stdout \* frames the server has written or is writing, not read yet

vars == <<traffic, disk, pipeline, id_mapper, mw, lock, c_pc, c_queue, s_pc, s_queue,
          s_route, s_deliver, from_client, from_server, to_server, to_client,
          status, last_frame, child, exit_code,
          piped_client, piped_server, mapped, held,
          server_stdin, server_stdout>>

\* The two pipes of the server process (Stdio::piped()).
pipes == <<server_stdin, server_stdout>>

\* How many frames a pipe holds before a write to it has to wait.
PipeCapacity == 1

\* The runs in which the pipes of the server are followed frame by frame; in
\* the others the server always reads its input and no write ever waits.
BoundedPipes(t) == t = "stall"

\* main, outside Router::run.
main_state == <<child, exit_code>>

history == <<piped_client, piped_server, mapped, held>>

\* A frame on its way out: the message, the loop that writes it, the index of
\* the frame read whose handling produced it, and its role in that handling.
\* `origin` is the index of the client frame the message was read as, 0 for a
\* message that was not read from the client.
Out(m, by, n, role, origin) ==
    [msg |-> m, by |-> by, cause |-> n, role |-> role, origin |-> origin]
NoOut == Out(Notification("", AbsentV), "", 0, "", 0)

OutSeq(ms, by, n, role) == [i \in 1..Len(ms) |-> Out(ms[i], by, n, role, 0)]

\* ------------------------------------------------------------ the two peers
HoverParams == [ObjectV("position") EXCEPT !.tdUri = UriReadme]
DefinitionParams == [ObjectV("position") EXCEPT !.tdUri = UriA]
DidOpenParams == [ObjectV("languageId=csharp,text=editor") EXCEPT
                      !.tdUri = UriA, !.tdVersion = 1]
DidCloseParams == [ObjectV("") EXCEPT !.tdUri = UriA]
InitializeParams == [ObjectV("capabilities") EXCEPT !.root = WorkspaceRoot]
RestoreParams(u) == [ObjectV("projectFilePaths") EXCEPT !.uuid = u]
RestoreCompleteParams(u) == [ObjectV("") EXCEPT !.uuid = u]
\* {items: [{section: ...}, {section: ...}, {}]}: a known section, an unknown
\* one, and an item without a section.
ItemsParams ==
    [ObjectV("items") EXCEPT !.list =
         <<"projects.dotnet_enable_automatic_restore", "unknown.section", "">>]
\* {id}: the params of $/cancelRequest.
CancelParams(i) == [ObjectV("") EXCEPT !.id = i]
\* {uri, text}; "" stands for a member that is missing.
OpenDocumentParams(u, t) == [ObjectV("") EXCEPT !.uri = u, !.text = t]

\* How many frames the server sends at most, by the kind of traffic.
ServerBound(t) ==
    IF t \in {"cycle", "machine"} THEN MaxCycleMsgs ELSE MaxServerMsgs

\* Frames the client may send.
ClientFrames(t) ==
    IF t = "ids"
    THEN {Request(Number(2), "textDocument/diagnostic", HoverParams),
          Request(Number(2), "textDocument/hover", HoverParams),
          Request(String("a"), "textDocument/hover", HoverParams)}
    ELSE IF t = "docs"
    THEN {Request(Number(7), "initialize", InitializeParams),
          Notification("initialized", ObjectV("")),
          Notification("textDocument/didOpen", DidOpenParams),
          Notification("textDocument/didClose", DidCloseParams),
          Request(Number(8), "textDocument/definition", DefinitionParams)}
    ELSE IF t = "restore"
    THEN {Request(Number(2), "textDocument/hover", HoverParams),
          Notification("textDocument/didOpen", DidOpenParams)}
    ELSE IF t = "pipeline"
    THEN {Request(Number(2), "textDocument/diagnostic", DefinitionParams),
          Notification("textDocument/didOpen", DidOpenParams)}
    ELSE IF t = "stall"
    THEN {Request(Number(8), "textDocument/definition", DefinitionParams),
          Request(Number(2), "textDocument/hover", HoverParams)}
    ELSE IF t = "peer"
    THEN {Request(Number(7), "textDocument/hover", HoverParams),
          Notification("$/cancelRequest", CancelParams(Number(7))),
          Response(Number(1), ObjectV("applied=true"), "")}
    ELSE {Request(Number(2), "textDocument/hover", HoverParams)}

\* Ids of the requests the server has received so far.
ReceivedIds(ts) ==
    {ts[i].msg.id : i \in {j \in 1..Len(ts) : ts[j].msg.kind = "Request"}}

\* Frames the server may send, given what it has received: it answers
\* requests it has received (possibly more than once) and sends requests and
\* notifications of its own.
ServerFrames(t, ts) ==
    IF t = "ids"
    THEN {Response(i, r, "") :
              i \in ReceivedIds(ts), r \in {NullV, ObjectV("contents=x")}}
         \cup {Response(i, AbsentV, "code=-32603") : i \in ReceivedIds(ts)}
         \cup {Request(Number(2), "client/registerCapability", ObjectV("registrations"))}
    ELSE IF t = "docs"
    THEN {Response(i, ObjectV("locations"), "") : i \in ReceivedIds(ts)}
         \cup {Notification("workspace/projectInitializationComplete", AbsentV)}
    ELSE IF t = "answers"
    THEN {Request(Number(6), "workspace/configuration", ItemsParams),
          Request(Number(1), "workspace/configuration", ObjectV("scope")),
          Request(Number(6), "workspace/configuration", AbsentV),
          Response(String("stale"), ObjectV("contents=x"), ""),
          Notification("window/logMessage", ObjectV("message"))}
         \cup {Response(i, ObjectV("contents=x"), "") : i \in ReceivedIds(ts)}
    ELSE IF t = "rewrite"
    THEN {Request(Number(3), "workspace/diagnostic/refresh", ArrayV(<<>>)),
          Request(Number(4), "workspace/semanticTokens/refresh", AbsentV),
          Notification("workspace/inlayHint/refresh", NullV),
          Notification("workspace/codeLens/refresh", ObjectV("reason")),
          Notification("window/logMessage", ArrayV(<<>>)),
          Notification("workspace/_roslyn_openDocument",
                       OpenDocumentParams(UriA, "class A {}")),
          Notification("workspace/_roslyn_openDocument",
                       OpenDocumentParams(UriA, "")),
          Notification("workspace/_roslyn_openDocument",
                       OpenDocumentParams("", "class A {}")),
          Notification("workspace/_roslyn_openDocument", AbsentV),
          Request(Number(9), "client/registerCapability", ObjectV("registrations"))}
    ELSE IF t = "cycle"
    THEN {Notification("workspace/_roslyn_projectNeedsRestore", RestoreParams("U1")),
          Notification("workspace/_roslyn_restoreComplete",
                       RestoreCompleteParams("U1"))}
    ELSE IF t = "machine"
    THEN {Notification("workspace/_roslyn_projectNeedsRestore", RestoreParams(u)) :
              u \in {"U1", "U2"}}
         \cup {Notification("workspace/_roslyn_restoreComplete",
                            RestoreCompleteParams("U1"))}
    ELSE IF t = "pipeline"
    THEN {Notification("workspace/_roslyn_projectNeedsRestore", RestoreParams("U1")),
          Request(Number(2), "client/registerCapability", ObjectV("registrations"))}
         \cup {Response(i, NullV, "") : i \in ReceivedIds(ts)}
    ELSE IF t = "stall"
    THEN {Request(Number(6), "workspace/configuration", ItemsParams),
          Notification("workspace/_roslyn_projectNeedsRestore", RestoreParams("U1")),
          Notification("window/logMessage", ObjectV("message"))}
    ELSE IF t = "peer"
    THEN {Request(Number(1), "workspace/applyEdit", ObjectV("edit")),
          Request(Number(6), "workspace/configuration", ItemsParams)}
         \cup {Response(i, ObjectV("contents=x"), "") : i \in ReceivedIds(ts)}
    ELSE IF t = "longrun"
    THEN {Notification("workspace/_roslyn_projectNeedsRestore", RestoreParams("U1"))}
         \cup {Response(i, ObjectV("contents=x"), "") : i \in ReceivedIds(ts)}
    ELSE IF t = "end"
    THEN {Notification("window/logMessage", ObjectV("message")),
          Request(Number(9), "client/registerCapability", ObjectV("registrations"))}
         \cup {Response(i, ObjectV("contents=x"), "") : i \in ReceivedIds(ts)}
    ELSE {Notification("workspace/_roslyn_projectNeedsRestore", RestoreParams(u)) :
              u \in {"U1", "U2"}}
         \cup {Request(Number(5), "workspace/_roslyn_projectNeedsRestore",
                       RestoreParams("U1")),
               Notification("workspace/_roslyn_restoreComplete",
                            RestoreCompleteParams("U1")),
               Request(Number(6), "workspace/configuration",
                       ItemsParams)}
         \cup {Response(i, NullV, "") : i \in ReceivedIds(ts)}

\* What is on disk in a run.
Disks(t) ==
    IF t = "docs"
    THEN {[readable |-> {UriA}, solution |-> "valid"],
          [readable |-> {UriA}, solution |-> "none"],
          [readable |-> {}, solution |-> "noproj"]}
    ELSE IF t \in {"pipeline", "stall"}
    THEN {[readable |-> {UriA}, solution |-> "none"]}
    ELSE {[readable |-> {}, solution |-> "none"]}

\* The middlewares a pipeline is built from when it is not the one of main.
PipelineNames ==
    {"DocumentLifecycle", "solution_loader", "ProjectRestore",
     "CapabilityRegistration", "diagnostics", "custom-notifications",
     "failing", "responding"}

\* MiddlewarePipeline::new().add(..): the pipelines of a run.  main builds
\* Middlewares; the "pipeline" runs take every pipeline of up to two distinct
\* middlewares, in either order.
Pipelines(t) ==
    IF t = "pipeline"
    THEN {<<>>} \cup {<<a>> : a \in PipelineNames}
         \cup {p \in {<<a, b>> : a \in PipelineNames, b \in PipelineNames} :
                   p[1] # p[2]}
    ELSE {Middlewares}

\* ------------------------------------------------------------------ framing
\* What a read finds on an input: the header block ("eof" when the stream
\* ends before a header line, "content-length" when it holds a parsable
\* Content-Length, "unparsable" when its value does not parse, "missing"
\* when it holds none) and the body ("message" for a JSON-RPC message,
\* "invalid" for bytes no Message variant deserializes from, "short" when
\* the stream ends inside it).
WireFrame(side, header, body) == [side |-> side, header |-> header, body |-> body]
NoFrame == WireFrame("", "", "")

\* What the peers may put on the wire besides well-formed messages.
EndFrames(side) ==
    {WireFrame(side, "eof", ""),
     WireFrame(side, "unparsable", "message"),
     WireFrame(side, "missing", "message"),
     WireFrame(side, "content-length", "invalid"),
     WireFrame(side, "content-length", "short")}

\* A plausible slip: a header block without Content-Length is taken for the
\* end of the stream.
read_lsp_message_missing_is_eof(f) ==
    IF f.header \in {"eof", "missing"} THEN "Ok(None)"
    ELSE IF f.header = "unparsable" THEN "Err"
    ELSE IF f.body \in {"short", "invalid"} THEN "Err"
    ELSE "Ok(Some)"

\* read_lsp_message: Ok(None), Err or Ok(Some(message)).
read_lsp_message(f) ==
    IF f.header = "eof" THEN "Ok(None)"
    ELSE IF f.header = "unparsable" THEN "Err"
    ELSE IF f.header = "missing" THEN "Err"
    ELSE IF f.body = "short" THEN "Err"
    ELSE IF f.body = "invalid" THEN "Err"
    ELSE "Ok(Some)"

\* ------------------------------------------------------------------- Router
\* A plausible slip: a response gets a server id like a request.
map_client_message_maps_responses(message, im) ==
    IF message.kind \in {"Request", "Response"}
    THEN [msg |-> [message EXCEPT !.id = map_client_id(im, message.id).ret],
          im |-> map_client_id(im, message.id).im]
    ELSE [msg |-> message, im |-> im]

\* Router::map_client_message: the forwarded message and the mapper left.
map_client_message(message, im) ==
    IF message.kind = "Request"
    THEN [msg |-> [message EXCEPT !.id = map_client_id(im, message.id).ret],
          im |-> map_client_id(im, message.id).im]
    ELSE [msg |-> message, im |-> im]

\* A plausible slip: the mapping is looked up and removed but the response
\* keeps the server's id.
unmap_server_message_keeps_id(message, im) ==
    IF message.kind = "Response"
    THEN IF get_client_id(im, message.id) = NoId
         THEN [ok |-> FALSE, msg |-> message, im |-> im]
         ELSE [ok |-> TRUE, msg |-> message, im |-> remove(im, message.id)]
    ELSE [ok |-> TRUE, msg |-> message, im |-> im]

\* A plausible slip: a response with an unknown id is passed on as it is.
unmap_server_message_forwards_unknown(message, im) ==
    IF message.kind = "Response" /\ get_client_id(im, message.id) # NoId
    THEN [ok |-> TRUE,
          msg |-> [message EXCEPT !.id = get_client_id(im, message.id)],
          im |-> remove(im, message.id)]
    ELSE [ok |-> TRUE, msg |-> message, im |-> im]

\* A plausible slip: the entry is not removed when the response is routed.
unmap_server_message_keeps_mapping(message, im) ==
    IF message.kind = "Response"
    THEN IF get_client_id(im, message.id) = NoId
         THEN [ok |-> FALSE, msg |-> message, im |-> im]
         ELSE [ok |-> TRUE,
               msg |-> [message EXCEPT !.id = get_client_id(im, message.id)],
               im |-> im]
    ELSE [ok |-> TRUE, msg |-> message, im |-> im]

\* Router::unmap_server_message: Ok(message) or Err, and the mapper left.
unmap_server_message(message, im) ==
    IF message.kind = "Response"
    THEN IF get_client_id(im, message.id) = NoId
         THEN [ok |-> FALSE, msg |-> message, im |-> im]
         ELSE [ok |-> TRUE,
               msg |-> [message EXCEPT !.id = get_client_id(im, message.id)],
               im |-> remove(im, message.id)]
    ELSE [ok |-> TRUE, msg |-> message, im |-> im]

\* A plausible slip: a message whose pipeline run failed is dropped.
pipeline_outcome_drops(r, message) ==
    IF r.ok THEN r ELSE [r EXCEPT !.some = FALSE, !.responses = <<>>]

\* The match on the pipeline's result in both loops: Ok is taken as it is,
\* Err(e) is logged and becomes (message, vec![]).
pipeline_outcome(r, message) ==
    IF r.ok THEN r
    ELSE [r EXCEPT !.some = TRUE, !.current = message, !.responses = <<>>]

\* write_lsp_message: the frame as serialized.
Written(o) == [o EXCEPT !.msg = Serialize(o.msg)]

\* A plausible slip: the forwarded message is written before the injections.
client_writes_current_first(r, forwarded, n) ==
    IF r.some
    THEN <<Out(forwarded, "c2s", n, "current", n)>>
         \o OutSeq(r.responses, "c2s", n, "injected")
    ELSE OutSeq(r.responses, "c2s", n, "injected")

\* route_client_to_server, after the pipeline: what is written to the server
\* for client frame n, in order.  r is the pipeline's result, `forwarded`
\* the id-mapped message when it was not blocked.
client_writes(r, forwarded, n) ==
    IF r.some
    THEN OutSeq(r.responses, "c2s", n, "injected")
         \o <<Out(forwarded, "c2s", n, "current", n)>>
    ELSE OutSeq(r.responses, "c2s", n, "injected")

\* A plausible slip: the responses of a blocked message are dropped.
server_injections_lost_on_block(r, n, origins) ==
    IF r.some
    THEN [i \in 1..Len(r.responses) |->
              Out(r.responses[i], "s2c", n, "injected", origins[i])]
    ELSE <<>>

\* A plausible slip: the responses the pipeline returns for a server message
\* are not written at all.
server_injections_dropped(r, n, origins) == <<>>

\* route_server_to_client, after the pipeline: the responses written back to
\* the server for server frame n, blocked or not.  origins[i] is the client
\* frame responses[i] was read as, 0 if none.
server_injections(r, n, origins) ==
    [i \in 1..Len(r.responses) |->
         Out(r.responses[i], "s2c", n, "injected", origins[i])]

\* The router with id mapper `im`, before it reads anything.
InitWith(t, im) ==
    /\ traffic = t
    /\ disk \in Disks(t)
    /\ pipeline \in Pipelines(t)
    /\ id_mapper = im
    /\ mw = MiddlewareNew
    /\ lock = "free"
    /\ c_pc = "read" /\ c_queue = <<>>
    /\ s_pc = "read" /\ s_queue = <<>> /\ s_route = NoOut /\ s_deliver = NoOut
    /\ from_client = <<>> /\ from_server = <<>>
    /\ to_server = <<>> /\ to_client = <<>>
    /\ status = "running"
    /\ last_frame = NoFrame /\ child = "spawned" /\ exit_code = -1
    /\ piped_client = <<>> /\ piped_server = <<>> /\ mapped = <<>> /\ held = <<>>
    /\ server_stdin = 0 /\ server_stdout = 0

TypeInit(t) == InitWith(t, IdMapperNew)

\* ---- route_client_to_server
\* One frame is read; the pipeline runs; a message that is not blocked is
\* id-mapped.  The loop then waits for the server_writer lock, unless the
\* message was blocked and nothing was injected.
ClientRead ==
    /\ status = "running" /\ c_pc = "read"
    /\ Len(from_client) < MaxClientMsgs
    /\ \E w \in ClientFrames(traffic) :
         LET n == Len(from_client) + 1
             r == pipeline_outcome(
                      process_client_message(pipeline, Deserialize(w), mw, disk),
                      Deserialize(w))
             f == map_client_message(r.current, id_mapper)
         IN
         /\ from_client' = Append(from_client, w)
         /\ mw' = r.st
         /\ id_mapper' = IF r.some THEN f.im ELSE id_mapper
         /\ c_queue' = client_writes(r, f.msg, n)
         /\ c_pc' = IF client_writes(r, f.msg, n) = <<>> THEN "read" ELSE "lock"
         /\ piped_client' = Append(piped_client, [r EXCEPT !.st = 0])
         /\ mapped' = IF r.some /\ r.current.kind = "Request"
                       THEN Append(mapped, [client_id |-> r.current.id,
                                            server_id |-> f.msg.id,
                                            before |-> id_mapper,
                                            after |-> f.im])
                       ELSE mapped
         /\ held' = IF Len(r.st.pending_cs_files) > Len(mw.pending_cs_files)
                     THEN Append(held, n) ELSE held
    /\ UNCHANGED <<pipes, traffic, disk, pipeline, lock, s_pc, s_queue, s_route, s_deliver,
                   from_server, to_server, to_client, status, piped_server,
                   last_frame, main_state>>

\* read_lsp_message returns Ok(None): the client closed its end.
ClientEOF ==
    /\ status = "running" /\ c_pc = "read"
    /\ \E f \in EndFrames("client") :
         /\ read_lsp_message(f) = "Ok(None)"
         /\ last_frame' = f
    /\ status' = "ok"
    /\ UNCHANGED <<pipes, history, main_state, traffic, disk, pipeline, id_mapper, mw, lock, c_pc, c_queue, s_pc,
                   s_queue, s_route, s_deliver, from_client, from_server,
                   to_server, to_client>>

\* self.server_writer.lock().await
ClientLock ==
    /\ status = "running" /\ c_pc = "lock" /\ lock = "free"
    /\ lock' = "c2s" /\ c_pc' = "write"
    /\ UNCHANGED <<pipes, history, main_state, traffic, disk, pipeline, id_mapper, mw, c_queue, s_pc, s_queue,
                   s_route, s_deliver, from_client, from_server, to_server,
                   to_client, status,
                   last_frame>>

\* (ClientWrite_relocks, a plausible slip: the guard is taken anew for every
\* message of the group, as the server loop does.)
ClientWrite_relocks ==
    /\ status = "running" /\ c_pc = "write"
    /\ BoundedPipes(traffic) => server_stdin < PipeCapacity
    /\ server_stdin' = IF BoundedPipes(traffic) THEN server_stdin + 1 ELSE server_stdin
    /\ UNCHANGED server_stdout
    /\ to_server' = Append(to_server, Written(Head(c_queue)))
    /\ c_queue' = Tail(c_queue)
    /\ lock' = "free"
    /\ c_pc' = IF Len(c_queue) = 1 THEN "read" ELSE "lock"
    /\ UNCHANGED <<history, main_state, traffic, disk, pipeline, id_mapper, mw, s_pc, s_queue, s_route,
                   s_deliver, from_client, from_server, to_client, status,
                   last_frame>>

\* One write_lsp_message under the lock; the guard is dropped after the last.
ClientWrite ==
    /\ status = "running" /\ c_pc = "write"
    /\ BoundedPipes(traffic) => server_stdin < PipeCapacity
    /\ server_stdin' = IF BoundedPipes(traffic) THEN server_stdin + 1 ELSE server_stdin
    /\ UNCHANGED server_stdout
    /\ to_server' = Append(to_server, Written(Head(c_queue)))
    /\ c_queue' = Tail(c_queue)
    /\ IF Len(c_queue) = 1
       THEN lock' = "free" /\ c_pc' = "read"
       ELSE lock' = lock /\ c_pc' = "write"
    /\ UNCHANGED <<history, main_state, traffic, disk, pipeline, id_mapper, mw, s_pc, s_queue, s_route,
                   s_deliver, from_client, from_server, to_client, status,
                   last_frame>>

\* ---- route_server_to_client
\* (RouteStep_no_local_answer, a plausible slip: the test for a response to
\* a server request is left out, so the response is unmapped like any other.)
\*
\* What follows the writes of the injections, up to the next await: a
\* response to a server request goes back to the server; anything else is
\* unmapped and goes to the client, or is skipped when its id is unknown.
\* `p` is the pipeline's result (NoOut when blocked), `req` tells whether the
\* frame read was a Request.
RouteStep_no_local_answer(p, req, im) ==
    IF p = NoOut
    THEN [pc |-> "read", answer |-> <<>>, deliver |-> NoOut, im |-> im]
    ELSE LET u == unmap_server_message(p.msg, im) IN
         IF u.ok
         THEN [pc |-> "deliver", answer |-> <<>>,
               deliver |-> [p EXCEPT !.msg = u.msg], im |-> u.im]
         ELSE [pc |-> "read", answer |-> <<>>, deliver |-> NoOut, im |-> u.im]

RouteStep(p, req, im) ==
    IF p = NoOut
    THEN [pc |-> "read", answer |-> <<>>, deliver |-> NoOut, im |-> im]
    ELSE IF req /\ p.msg.kind = "Response"
    THEN [pc |-> "lock", answer |-> <<[p EXCEPT !.role = "answer"]>>,
          deliver |-> NoOut, im |-> im]
    ELSE LET u == unmap_server_message(p.msg, im) IN
         IF u.ok
         THEN [pc |-> "deliver", answer |-> <<>>,
               deliver |-> [p EXCEPT !.msg = u.msg], im |-> u.im]
         ELSE [pc |-> "read", answer |-> <<>>, deliver |-> NoOut, im |-> u.im]

ServerRead ==
    /\ status = "running" /\ s_pc = "read"
    /\ Len(from_server) < ServerBound(traffic)
    /\ BoundedPipes(traffic) => server_stdout > 0
    /\ server_stdout' = IF BoundedPipes(traffic) THEN server_stdout - 1 ELSE server_stdout
    /\ UNCHANGED server_stdin
    /\ \E w \in ServerFrames(traffic, to_server) :
         LET n == Len(from_server) + 1
             r == pipeline_outcome(
                      process_server_message(pipeline, Deserialize(w), mw, disk),
                      Deserialize(w))
             p == IF r.some
                  THEN Out(r.current, "s2c", n,
                           IF w.kind = "Request" THEN "request" ELSE "current", 0)
                  ELSE NoOut
             next == RouteStep(p, w.kind = "Request", id_mapper)
             released == Len(r.st.pending_cs_files) < Len(mw.pending_cs_files)
             origins == [i \in 1..Len(r.responses) |->
                             IF released /\ i <= Len(held) THEN held[i] ELSE 0]
         IN
         /\ from_server' = Append(from_server, w)
         /\ mw' = r.st
         /\ piped_server' = Append(piped_server, [r EXCEPT !.st = 0])
         /\ held' = IF released THEN <<>> ELSE held
         /\ IF server_injections(r, n, origins) # <<>>
            THEN /\ s_queue' = server_injections(r, n, origins)
                 /\ s_route' = p
                 /\ s_pc' = "lock"
                 /\ UNCHANGED <<id_mapper, s_deliver>>
            ELSE /\ s_queue' = next.answer
                 /\ s_route' = NoOut
                 /\ s_pc' = next.pc
                 /\ id_mapper' = next.im
                 /\ s_deliver' = next.deliver
    /\ UNCHANGED <<traffic, disk, pipeline, lock, c_pc, c_queue, from_client, to_server,
                   to_client, status, piped_client, mapped, last_frame,
                   main_state>>

\* read_lsp_message returns Ok(None): the server closed its end.
ServerEOF ==
    /\ status = "running" /\ s_pc = "read"
    /\ \E f \in EndFrames("server") :
         /\ read_lsp_message(f) = "Ok(None)"
         /\ last_frame' = f
    /\ status' = "ok"
    /\ UNCHANGED <<pipes, history, main_state, traffic, disk, pipeline, id_mapper, mw, lock, c_pc, c_queue, s_pc,
                   s_queue, s_route, s_deliver, from_client, from_server,
                   to_server, to_client>>

\* self.server_writer.lock().await, taken anew for every message.
ServerLock ==
    /\ status = "running" /\ s_pc = "lock" /\ lock = "free"
    /\ lock' = "s2c" /\ s_pc' = "write"
    /\ UNCHANGED <<pipes, history, main_state, traffic, disk, pipeline, id_mapper, mw, c_pc, c_queue, s_queue,
                   s_route, s_deliver, from_client, from_server, to_server,
                   to_client, status,
                   last_frame>>

\* One write_lsp_message to the server; the guard is dropped with it.  After
\* the last injection the processed message is routed.
ServerWrite ==
    /\ status = "running" /\ s_pc = "write"
    /\ BoundedPipes(traffic) => server_stdin < PipeCapacity
    /\ server_stdin' = IF BoundedPipes(traffic) THEN server_stdin + 1 ELSE server_stdin
    /\ UNCHANGED server_stdout
    /\ to_server' = Append(to_server, Written(Head(s_queue)))
    /\ lock' = "free"
    /\ IF Len(s_queue) > 1
       THEN /\ s_queue' = Tail(s_queue) /\ s_pc' = "lock"
            /\ UNCHANGED <<id_mapper, s_route, s_deliver>>
       ELSE LET next == RouteStep(s_route, s_route.role = "request", id_mapper) IN
            /\ s_queue' = next.answer
            /\ s_route' = NoOut
            /\ s_pc' = next.pc
            /\ id_mapper' = next.im
            /\ s_deliver' = next.deliver
    /\ UNCHANGED <<history, main_state, traffic, disk, pipeline, mw, c_pc, c_queue, from_client,
                   from_server, to_client, status,
                   last_frame>>

\* self.client_writer.lock().await and write_lsp_message to the client.
ServerDeliver ==
    /\ status = "running" /\ s_pc = "deliver"
    /\ to_client' = Append(to_client, Written(s_deliver))
    /\ s_deliver' = NoOut
    /\ s_pc' = "read"
    /\ UNCHANGED <<pipes, history, main_state, traffic, disk, pipeline, id_mapper, mw, lock, c_pc, c_queue, s_queue,
                   s_route, from_client, from_server, to_server, status,
                   last_frame>>

\* ---- the ends of Router::run
\* read_lsp_message returns Err on the client's input; `?` returns it from
\* the loop and select! from Router::run.
ClientError ==
    /\ status = "running" /\ c_pc = "read"
    /\ \E f \in EndFrames("client") :
         /\ read_lsp_message(f) = "Err"
         /\ last_frame' = f
    /\ status' = "err"
    /\ UNCHANGED <<pipes, history, main_state, traffic, disk, pipeline, id_mapper, mw, lock, c_pc,
                   c_queue, s_pc, s_queue, s_route, s_deliver, from_client,
                   from_server, to_server, to_client>>

\* The same on the server's input.
ServerError ==
    /\ status = "running" /\ s_pc = "read"
    /\ \E f \in EndFrames("server") :
         /\ read_lsp_message(f) = "Err"
         /\ last_frame' = f
    /\ status' = "err"
    /\ UNCHANGED <<pipes, history, main_state, traffic, disk, pipeline, id_mapper, mw, lock, c_pc,
                   c_queue, s_pc, s_queue, s_route, s_deliver, from_client,
                   from_server, to_server, to_client>>

\* ---- main, after router.run().await
\* if let Err(e) = router.run().await { return Err(e); }
MainError ==
    /\ status = "err" /\ exit_code = -1
    /\ exit_code' = 1
    /\ UNCHANGED <<pipes, history, child, traffic, disk, pipeline, id_mapper, mw, lock, c_pc,
                   c_queue, s_pc, s_queue, s_route, s_deliver, from_client,
                   from_server, to_server, to_client, status, last_frame>>

\* server_process.kill().await.ok()
MainKill ==
    /\ status = "ok" /\ exit_code = -1 /\ child = "spawned"
    /\ child' = "killed"
    /\ UNCHANGED <<pipes, history, exit_code, traffic, disk, pipeline, id_mapper, mw, lock, c_pc,
                   c_queue, s_pc, s_queue, s_route, s_deliver, from_client,
                   from_server, to_server, to_client, status, last_frame>>

\* Ok(())
MainExit ==
    /\ status = "ok" /\ exit_code = -1 /\ child = "killed"
    /\ exit_code' = 0
    /\ UNCHANGED <<pipes, history, child, traffic, disk, pipeline, id_mapper, mw, lock, c_pc,
                   c_queue, s_pc, s_queue, s_route, s_deliver, from_client,
                   from_server, to_server, to_client, status, last_frame>>

\* The steps of the two loops while both peers keep their ends open.
Next ==
    \/ ClientRead
    \/ ClientLock
    \/ ClientWrite
    \/ ServerRead
    \/ ServerLock
    \/ ServerWrite
    \/ ServerDeliver

\* The same with the ends of the two inputs: Router::run returns with the
\* first loop that does, and the other loop is dropped where it stands.
NextToEnd ==
    \/ Next
    \/ ClientEOF
    \/ ServerEOF

\* The whole run of the proxy: the loops, the ways Router::run returns, and
\* what main does then.
NextRun ==
    \/ ClientRead
    \/ ClientLock
    \/ ClientWrite
    \/ ServerRead
    \/ ServerLock
    \/ ServerWrite
    \/ ServerDeliver
    \/ ClientEOF
    \/ ServerEOF
    \/ ClientError
    \/ ServerError
    \/ MainError
    \/ MainKill
    \/ MainExit

\* One specification per kind of traffic.
InitIds == TypeInit("ids")
InitDocs == TypeInit("docs")
InitRestore == TypeInit("restore")

Spec == InitIds /\ [][Next]_vars
SpecDocs == InitDocs /\ [][Next]_vars
SpecRestore == InitRestore /\ [][Next]_vars

InitAnswers == TypeInit("answers")
InitRewrite == TypeInit("rewrite")
InitCycle == TypeInit("cycle")
InitEnd == TypeInit("end")

SpecAnswers == InitAnswers /\ [][Next]_vars
SpecRewrite == InitRewrite /\ [][Next]_vars
SpecCycle == InitCycle /\ [][Next]_vars
SpecEnd == InitEnd /\ [][NextRun]_vars

InitMachine == TypeInit("machine")
SpecMachine == InitMachine /\ [][Next]_vars

InitPipeline == TypeInit("pipeline")
SpecPipeline == InitPipeline /\ [][Next]_vars

\* ---- the server process at the other end of its pipes
\* The server writes a frame to its output.  The write returns when the pipe
\* has room; otherwise the server waits in it until the proxy reads.
ServerProduce ==
    /\ BoundedPipes(traffic) /\ status = "running"
    /\ server_stdout <= PipeCapacity
    /\ server_stdout' = server_stdout + 1
    /\ UNCHANGED <<server_stdin, history, main_state, traffic, disk, pipeline,
                   id_mapper, mw, lock, c_pc, c_queue, s_pc, s_queue, s_route,
                   s_deliver, from_client, from_server, to_server, to_client,
                   status, last_frame>>

\* The server reads a frame from its input, which it does not do while it
\* waits in a write to its output.
ServerConsume ==
    /\ BoundedPipes(traffic) /\ status = "running"
    /\ server_stdout <= PipeCapacity
    /\ server_stdin > 0
    /\ server_stdin' = server_stdin - 1
    /\ UNCHANGED <<server_stdout, history, main_state, traffic, disk, pipeline,
                   id_mapper, mw, lock, c_pc, c_queue, s_pc, s_queue, s_route,
                   s_deliver, from_client, from_server, to_server, to_client,
                   status, last_frame>>

\* The two loops and the server process.
NextStall ==
    \/ ClientRead
    \/ ClientLock
    \/ ClientWrite
    \/ ServerRead
    \/ ServerLock
    \/ ServerWrite
    \/ ServerDeliver
    \/ ServerProduce
    \/ ServerConsume

InitStall == TypeInit("stall")
SpecStall == InitStall /\ [][NextStall]_vars

InitPeer == TypeInit("peer")
SpecPeer == InitPeer /\ [][Next]_vars

\* The id mapper after FirstRestoreId - FirstServerId client requests, all
\* with an id of their own, have been forwarded and answered: every entry
\* has been removed and next_id has reached FirstRestoreId.
IdMapperLongRun == [IdMapperNew EXCEPT !.next_id = FirstRestoreId]

\* A run that goes on from there, with the middlewares as textDocument/hover
\* requests leave them; the history variables start anew.
InitLongRun == InitWith("longrun", IdMapperLongRun)
SpecLongRun == InitLongRun /\ [][Next]_vars

\* ==================================================================== claims
\* The handling of client frame n / server frame n has run to its end.
ClientDone(n) == n < Len(from_client) \/ c_pc = "read"
ServerDone(n) == n < Len(from_server) \/ s_pc = "read"

RECURSIVE Filter(_, _, _)
Filter(seq, by, n) ==
    IF seq = <<>> THEN <<>>
    ELSE IF Head(seq).by = by /\ Head(seq).cause = n
    THEN <<Head(seq).msg>> \o Filter(Tail(seq), by, n)
    ELSE Filter(Tail(seq), by, n)

\* The messages written to the server by loop `by` for the frame it read n-th.
WritesFor(by, n) == Filter(to_server, by, n)

SerializeAll(ms) == [i \in 1..Len(ms) |-> Serialize(ms[i])]

IsPrefix(a, b) == Len(a) <= Len(b) /\ \A i \in 1..Len(a) : a[i] = b[i]

\* Positions in to_server of the client requests forwarded under server id S.
ForwardsUnder(S) ==
    {j \in 1..Len(to_server) :
         /\ to_server[j].by = "c2s" /\ to_server[j].role = "current"
         /\ to_server[j].msg.kind = "Request" /\ to_server[j].msg.id = S}

\* The id the server used in the frame that to_client[k] stems from.
ServerIdOf(k) == from_server[to_client[k].cause].id

\* ---- C1
\* C1: every response written to the client stems from a server response
\* whose id S is the id some client request was forwarded under, and it
\* carries the id C of the client request(s) forwarded under S.
RoundTripIdMapping ==
    \A k \in 1..Len(to_client) :
        to_client[k].msg.kind = "Response" =>
            /\ ForwardsUnder(ServerIdOf(k)) # {}
            /\ \A j \in ForwardsUnder(ServerIdOf(k)) :
                   from_client[to_server[j].cause].id = to_client[k].msg.id

\* A response has reached the client under an id that differs from the
\* server's.
RoundTripWitness ==
    \E k \in 1..Len(to_client) :
        /\ to_client[k].msg.kind = "Response"
        /\ to_client[k].msg.id # ServerIdOf(k)
        /\ to_client[k].msg.id = String("a")

\* ---- C2
\* What the client loop has to write for client frame n: the pipeline's
\* injections, then the message with the id it was mapped to.
ExpectedClientWrites(n) ==
    SerializeAll(piped_client[n].responses) \o <<Serialize(piped_client[n].current)>>

SameButId(a, b) == [a EXCEPT !.id = b.id] = b

\* C2: for a client frame the pipeline does not block, the client loop writes
\* the injections in their order and then the message (same but for the id of
\* a request); at any moment what is written is a prefix of that, and all of
\* it once the frame is handled.
InjectionOrdering ==
    \A n \in 1..Len(from_client) :
        piped_client[n].some =>
            LET w == WritesFor("c2s", n)
                e == ExpectedClientWrites(n)
                k == Len(piped_client[n].responses)
            IN /\ Len(w) <= k + 1
               /\ IsPrefix(SubSeq(w, 1, IF Len(w) > k THEN k ELSE Len(w)), e)
               /\ Len(w) = k + 1 =>
                      /\ SameButId(w[k + 1], e[k + 1])
                      /\ e[k + 1].kind # "Request" => w[k + 1] = e[k + 1]
               /\ ClientDone(n) => Len(w) = k + 1

\* A client frame with two injections has been written out.
InjectionOrderingWitness ==
    \E n \in 1..Len(from_client) :
        /\ piped_client[n].some /\ ClientDone(n)
        /\ Len(piped_client[n].responses) = 2
        /\ Len(WritesFor("c2s", n)) = 3

\* ---- C3
\* C3: for a blocked frame, in either direction, the loop that read it writes
\* to the server exactly the injections accumulated before the block, in
\* order; a blocked server frame puts nothing on the client's side, and a
\* message blocked after injections is itself never written.
BlockPreservesInjections ==
    /\ \A n \in 1..Len(from_server) :
           ~piped_server[n].some =>
               /\ IsPrefix(WritesFor("s2c", n), SerializeAll(piped_server[n].responses))
               /\ ServerDone(n) =>
                      WritesFor("s2c", n) = SerializeAll(piped_server[n].responses)
               /\ \A k \in 1..Len(to_client) : to_client[k].cause # n
               /\ ~(s_pc = "deliver" /\ s_deliver.cause = n)
    /\ \A n \in 1..Len(from_client) :
           ~piped_client[n].some =>
               /\ IsPrefix(WritesFor("c2s", n), SerializeAll(piped_client[n].responses))
               /\ ClientDone(n) =>
                      WritesFor("c2s", n) = SerializeAll(piped_client[n].responses)
               /\ piped_client[n].responses # <<>> =>
                      \A j \in 1..Len(to_server) : to_server[j].origin # n

\* A server frame was blocked after an injection, and the injection is written.
BlockPreservesInjectionsWitness ==
    \E n \in 1..Len(from_server) :
        /\ ~piped_server[n].some /\ ServerDone(n)
        /\ Len(piped_server[n].responses) = 1
        /\ WritesFor("s2c", n) = SerializeAll(piped_server[n].responses)

\* ---- C4
\* The server sent a Request as its n-th frame and the pipeline's final
\* current message is a Response.
LocallyAnswered(n) ==
    /\ from_server[n].kind = "Request"
    /\ piped_server[n].some /\ piped_server[n].current.kind = "Response"

AnswersWritten(n) ==
    {j \in 1..Len(to_server) :
         /\ to_server[j].by = "s2c" /\ to_server[j].cause = n
         /\ to_server[j].role = "answer"}

LocalAnswerDelivery ==
    \A n \in 1..Len(from_server) :
        LocallyAnswered(n) =>
            /\ \A k \in 1..Len(to_client) : to_client[k].cause # n
            /\ ~(s_pc = "deliver" /\ s_deliver.cause = n)
            /\ Cardinality(AnswersWritten(n)) <= 1
            /\ \A j \in AnswersWritten(n) :
                   to_server[j].msg = Serialize(piped_server[n].current)
            /\ ServerDone(n) => Cardinality(AnswersWritten(n)) = 1

\* C4: a server request whose pipeline result is a Response gets that
\* response written to the server, once, and nothing written to the client;
\* and no step the server loop takes for it changes the id mapper.
LocalAnswersStayLocal ==
    /\ []LocalAnswerDelivery
    /\ [][(/\ <<s_pc, s_queue, from_server>>' # <<s_pc, s_queue, from_server>>
           /\ LocallyAnswered(Len(from_server))')
          => id_mapper' = id_mapper]_vars

\* A server request was answered locally while its id was a live server id
\* of the id mapper.
LocalAnswersWitness ==
    \E n \in 1..Len(from_server) :
        /\ LocallyAnswered(n) /\ ServerDone(n)
        /\ Cardinality(AnswersWritten(n)) = 1
        /\ from_server[n].id \in DOMAIN id_mapper.server_to_client

\* ---- C5
\* The call mapped[j] allocated: its client id had no mapping.
Fresh(j) == mapped[j].client_id \notin DOMAIN mapped[j].before.client_to_server

\* C5: an allocating call of map_client_id returns a server id no earlier
\* call returned, calls for distinct client ids never return the same server
\* id, and the client_to_server map is injective.
UniqueServerIds ==
    /\ \A i, j \in 1..Len(mapped) :
           i < j =>
               /\ Fresh(j) => mapped[j].server_id # mapped[i].server_id
               /\ mapped[i].client_id # mapped[j].client_id =>
                      mapped[i].server_id # mapped[j].server_id
    /\ \A c1, c2 \in DOMAIN id_mapper.client_to_server :
           c1 # c2 => id_mapper.client_to_server[c1] # id_mapper.client_to_server[c2]

\* A client id was mapped, its mapping removed, and the id mapped again.
UniqueServerIdsWitness ==
    \E i, j \in 1..Len(mapped) :
        /\ i < j /\ Fresh(i) /\ Fresh(j)
        /\ mapped[i].client_id = mapped[j].client_id

\* ---- C6
\* C6: a call of map_client_id for a client id whose mapping is still there
\* leaves the mapper as it was (counter and both maps) and returns what the
\* call that allocated the mapping returned.
IdempotentMapping ==
    \A j \in 1..Len(mapped) :
        ~Fresh(j) =>
            /\ mapped[j].after = mapped[j].before
            /\ \E i \in 1..(j - 1) :
                   /\ Fresh(i)
                   /\ mapped[i].client_id = mapped[j].client_id
                   /\ mapped[i].server_id = mapped[j].server_id
                   /\ \A k \in (i + 1)..j :
                          mapped[k].client_id = mapped[j].client_id => ~Fresh(k)

\* map_client_id was called for a client id that was still mapped.
IdempotentMappingWitness ==
    \E j \in 1..Len(mapped) : ~Fresh(j)

\* ---- C7
NeedsRestore(n, u) ==
    /\ from_server[n].method = "workspace/_roslyn_projectNeedsRestore"
    /\ from_server[n].params.uuid = u

InjectsRestore(n) ==
    \E i \in 1..Len(piped_server[n].responses) :
        piped_server[n].responses[i].method = "workspace/_roslyn_restore"

\* C7: of two needsRestore frames (request or notification) with the same
\* UUID and no restoreComplete read between them, at most one injects a
\* workspace/_roslyn_restore request.
RestoreDedup ==
    \A u \in {"U1", "U2"} :
        \A i, j \in 1..Len(from_server) :
            (/\ i < j /\ NeedsRestore(i, u) /\ NeedsRestore(j, u)
             /\ \A k \in i..j :
                    from_server[k].method # "workspace/_roslyn_restoreComplete")
            => ~(InjectsRestore(i) /\ InjectsRestore(j))

\* Two needsRestore notifications with the same UUID were read; the first
\* injected a restore, which has been written to the server.
RestoreDedupWitness ==
    \E i, j \in 1..Len(from_server) :
        /\ i < j /\ NeedsRestore(i, "U1") /\ NeedsRestore(j, "U1")
        /\ from_server[j].kind = "Notification"
        /\ InjectsRestore(i) /\ ServerDone(j)
        /\ \E p \in 1..Len(to_server) :
               to_server[p].msg.method = "workspace/_roslyn_restore"

\* ---- C8
\* to_client[k] answers a client request with method m: some request
\* forwarded under the server's id was read from the client with method m
\* and the id the response carries.
Answers(k, m) ==
    \E j \in ForwardsUnder(ServerIdOf(k)) :
        /\ from_client[to_server[j].cause].method = m
        /\ from_client[to_server[j].cause].id = to_client[k].msg.id

\* C8: a response delivered to the client for a textDocument/diagnostic
\* request, whose result the server sent absent or null, carries the result
\* {kind: "full", items: []}.
DiagnosticsNullFill ==
    \A k \in 1..Len(to_client) :
        (/\ to_client[k].msg.kind = "Response"
         /\ Answers(k, "textDocument/diagnostic")
         /\ \A j \in ForwardsUnder(ServerIdOf(k)) :
                from_client[to_server[j].cause].method = "textDocument/diagnostic"
         /\ from_server[to_client[k].cause].result.shape \in {"absent", "null"})
        => to_client[k].msg.result = FullEmptyReport

\* ---- C9
\* C9: a response delivered to the client for a request that is not a
\* textDocument/diagnostic request, or whose result the server sent non-null,
\* carries the server's result and error (an absent result and a null one
\* are taken as the same here).
NonDiagnosticUnchanged ==
    \A k \in 1..Len(to_client) :
        (/\ to_client[k].msg.kind = "Response"
         /\ \/ \A j \in ForwardsUnder(ServerIdOf(k)) :
                   from_client[to_server[j].cause].method # "textDocument/diagnostic"
            \/ from_server[to_client[k].cause].result.shape \notin {"absent", "null"})
        => /\ DeserializeOption(to_client[k].msg.result)
                  = DeserializeOption(from_server[to_client[k].cause].result)
           /\ to_client[k].msg.error = from_server[to_client[k].cause].error

\* ---- C10
\* C10: messages read from the client reach the server in the order they
\* were read, and messages read from the server reach the client in the
\* order they were read.
OrderPreservation ==
    /\ \A p, q \in 1..Len(to_server) :
           (p < q /\ to_server[p].origin > 0 /\ to_server[q].origin > 0)
           => to_server[p].origin < to_server[q].origin
    /\ \A p, q \in 1..Len(to_client) :
           p < q => to_client[p].cause < to_client[q].cause

\* ---- C11
RECURSIVE FilterRole(_, _, _, _)
FilterRole(seq, by, n, role) ==
    IF seq = <<>> THEN <<>>
    ELSE IF Head(seq).by = by /\ Head(seq).cause = n /\ Head(seq).role = role
    THEN <<Head(seq).msg>> \o FilterRole(Tail(seq), by, n, role)
    ELSE FilterRole(Tail(seq), by, n, role)

\* The injections the server loop has written to the server for server frame n.
InjectedFor(n) == FilterRole(to_server, "s2c", n, "injected")

\* C11: every message written to the client is the pipeline's final current
\* message (with the id unmapped, for a response) of one server frame, and no
\* two come from the same frame; the injections the pipeline produced for a
\* server frame are written to the server, in order, and none to the client.
NoUnsolicitedClientMessage ==
    /\ \A k \in 1..Len(to_client) :
           LET n == to_client[k].cause IN
           /\ n \in 1..Len(from_server)
           /\ piped_server[n].some
           /\ to_client[k].role # "injected"
           /\ SameButId(to_client[k].msg, Serialize(piped_server[n].current))
           /\ piped_server[n].current.kind # "Response" =>
                  to_client[k].msg = Serialize(piped_server[n].current)
           /\ \A k2 \in 1..Len(to_client) : k2 # k => to_client[k2].cause # n
    /\ \A n \in 1..Len(from_server) :
           /\ IsPrefix(InjectedFor(n), SerializeAll(piped_server[n].responses))
           /\ ServerDone(n) =>
                  InjectedFor(n) = SerializeAll(piped_server[n].responses)

\* A server notification for which the pipeline produced an injection has
\* been delivered to the client, its injection written to the server.
NoUnsolicitedWitness ==
    \E n \in 1..Len(from_server) :
        /\ piped_server[n].some /\ piped_server[n].responses # <<>>
        /\ InjectedFor(n) = SerializeAll(piped_server[n].responses)
        /\ \E k \in 1..Len(to_client) : to_client[k].cause = n

\* ---- C12
\* The server loop reads a response whose id the id mapper does not hold.
MissStep ==
    /\ from_server' # from_server
    /\ from_server'[Len(from_server')].kind = "Response"
    /\ from_server'[Len(from_server')].id \notin DOMAIN id_mapper.server_to_client

\* No response that came under an id the mapper cannot have allocated (a
\* string) is written to the client.
StaleNeverDelivered ==
    \A k \in 1..Len(to_client) :
        from_server[to_client[k].cause].kind = "Response" =>
            from_server[to_client[k].cause].id.variant = "Number"

\* C12: when the server loop reads a response whose id is not in the id
\* mapper, nothing is written or queued for the client, the id mapper stays
\* as it was, and the loop is back at its read with the router running.
CorrelationMissNonFatal ==
    /\ []StaleNeverDelivered
    /\ [][MissStep =>
            /\ id_mapper' = id_mapper
            /\ to_client' = to_client /\ s_deliver' = NoOut
            /\ s_queue' = <<>> /\ s_pc' = "read"
            /\ status' = "running"]_vars

\* A response with an unknown id was read first; the frame the server sent
\* after it has been read and delivered to the client.
CorrelationMissWitness ==
    /\ Len(from_server) = 2
    /\ from_server[1] = Response(String("stale"), ObjectV("contents=x"), "")
    /\ Len(to_client) = 1 /\ to_client[1].cause = 2

\* ---- C13
\* C13: once the proxy has exited, after Router::run returned for the end of
\* an input or for a fatal error, the server process has been killed.
KilledBeforeExit ==
    exit_code # -1 => child = "killed"

\* ---- C14
\* C14: a frame without Content-Length, with an unparsable one, or with a
\* body that is no JSON-RPC message ends the run with a non-zero exit code;
\* the end of an input ends it with exit code 0; and once Router::run has
\* returned nothing more is written to the client or to the server.
FatalFramesAndExitCodes ==
    /\ [](status # "running" =>
             /\ last_frame.header = "eof" => status = "ok"
             /\ (\/ last_frame.header \in {"missing", "unparsable"}
                 \/ last_frame.body = "invalid") => status = "err")
    /\ [](exit_code # -1 =>
             /\ status = "ok" => exit_code = 0
             /\ status = "err" => exit_code # 0)
    /\ [][status # "running" =>
            to_server' = to_server /\ to_client' = to_client]_vars

\* The proxy has exited with an error after the server sent a frame without
\* Content-Length, while the client loop still had messages to write.
FatalFramesWitness ==
    /\ exit_code = 1
    /\ last_frame = WireFrame("server", "missing", "message")
    /\ c_queue # <<>>
    /\ to_client # <<>>

\* ---- C15
IsConfigurationRequest(n) ==
    from_server[n].kind = "Request" /\ from_server[n].method = "workspace/configuration"

\* params.items is an array.
HasItems(n) ==
    from_server[n].params.shape = "object" /\ from_server[n].params.tag = "items"

\* One answer per item, in the order of the items.
ExpectedConfigurationAnswer(n) ==
    Response(from_server[n].id,
             ArrayV([i \in 1..Len(from_server[n].params.list) |->
                         config_answer(from_server[n].params.list[i])]),
             "")

\* Server frame n is answered to the server and kept from the client.
AnsweredLocally(n) ==
    /\ \A k \in 1..Len(to_client) : to_client[k].cause # n
    /\ ~(s_pc = "deliver" /\ s_deliver.cause = n)
    /\ IsPrefix(WritesFor("s2c", n), <<ExpectedConfigurationAnswer(n)>>)
    /\ ServerDone(n) => WritesFor("s2c", n) = <<ExpectedConfigurationAnswer(n)>>

\* C15 as stated: every workspace/configuration request from the server is
\* answered to the server with one response carrying its id and one answer
\* per item of params.items, in order, and nothing is written to the client.
ConfigurationAnswered ==
    \A n \in 1..Len(from_server) :
        IsConfigurationRequest(n) => AnsweredLocally(n)

\* C15, amended: the same for every workspace/configuration request whose
\* params hold an items array.
ConfigurationWithItemsAnswered ==
    \A n \in 1..Len(from_server) :
        (IsConfigurationRequest(n) /\ HasItems(n)) => AnsweredLocally(n)

\* The request with a known section, an unknown one and an item without a
\* section has been answered [true, null, null] under its id, and nothing
\* has gone to the client.
ConfigurationWitness ==
    \E n \in 1..Len(from_server) :
        /\ IsConfigurationRequest(n) /\ HasItems(n) /\ ServerDone(n)
        /\ WritesFor("s2c", n)
               = <<Response(Number(6), ArrayV(<<"true", "null", "null">>), "")>>
        /\ to_client = <<>>

\* ---- C16
\* C16: every client/registerCapability request from the server results in
\* exactly one message written to the server, a response with the request's
\* id and a null result, and in nothing written to the client.
CapabilityAcknowledged ==
    \A n \in 1..Len(from_server) :
        (from_server[n].kind = "Request"
         /\ from_server[n].method = "client/registerCapability") =>
            /\ \A k \in 1..Len(to_client) : to_client[k].cause # n
            /\ ~(s_pc = "deliver" /\ s_deliver.cause = n)
            /\ IsPrefix(WritesFor("s2c", n),
                        <<Response(from_server[n].id, NullV, "")>>)
            /\ ServerDone(n) =>
                   WritesFor("s2c", n) = <<Response(from_server[n].id, NullV, "")>>

\* ---- C17
\* What the client has been sent for server frame n.
DeliveredFor(n) ==
    {to_client[k].msg : k \in {j \in 1..Len(to_client) : to_client[j].cause = n}}

\* Server frame n is out of the server loop's hands, not blocked.
Delivered(n) == ServerDone(n) /\ piped_server[n].some

IsRefresh(n) ==
    from_server[n].kind \in {"Request", "Notification"}
    /\ from_server[n].method \in REFRESH_METHODS

\* The methods other interceptors of the pipeline act on.
ActedOnElsewhere(n) ==
    from_server[n].method \in {"workspace/_roslyn_openDocument",
                               "client/registerCapability"}

\* C17: a refresh request or notification whose params are an array or null
\* reaches the client with its kind, method and id and without params; a
\* refresh message with absent or object params and a non-refresh request or
\* notification reach the client as the server sent them.
RefreshParamsNormalised ==
    \A n \in 1..Len(from_server) :
        /\ (IsRefresh(n) /\ from_server[n].params.shape \in {"array", "null"})
           => /\ piped_server[n].some
              /\ DeliveredFor(n) \subseteq {[from_server[n] EXCEPT !.params = AbsentV]}
              /\ Delivered(n) => DeliveredFor(n) # {}
        /\ (IsRefresh(n) /\ from_server[n].params.shape \in {"absent", "object"})
           => /\ piped_server[n].some
              /\ DeliveredFor(n) \subseteq {from_server[n]}
              /\ Delivered(n) => DeliveredFor(n) # {}
        /\ (/\ ~IsRefresh(n) /\ ~ActedOnElsewhere(n)
            /\ from_server[n].kind \in {"Request", "Notification"})
           => /\ piped_server[n].some
              /\ DeliveredFor(n) \subseteq {from_server[n]}
              /\ Delivered(n) => DeliveredFor(n) # {}

\* A refresh request with array params and a refresh notification with null
\* params have both reached the client without params; the request kept its id.
RefreshParamsWitness ==
    /\ Len(to_client) = 2
    /\ from_server[1] = Request(Number(3), "workspace/diagnostic/refresh", ArrayV(<<>>))
    /\ to_client[1].msg = Request(Number(3), "workspace/diagnostic/refresh", AbsentV)
    /\ from_server[2] = Notification("workspace/inlayHint/refresh", NullV)
    /\ to_client[2].msg = Notification("workspace/inlayHint/refresh", AbsentV)

\* ---- C18
IsOpenDocument(n) ==
    from_server[n].kind = "Notification"
    /\ from_server[n].method = "workspace/_roslyn_openDocument"

\* params hold a string uri and a string text.
HasUriAndText(n) ==
    /\ from_server[n].params.shape = "object"
    /\ from_server[n].params.uri # "" /\ from_server[n].params.text # ""

\* {textDocument: {uri, languageId: "csharp", version: 1, text}}
ExpectedDidOpen(n) ==
    Notification("textDocument/didOpen",
                 [ObjectV("languageId=csharp") EXCEPT
                      !.tdUri = from_server[n].params.uri,
                      !.tdVersion = 1,
                      !.text = from_server[n].params.text])

\* C18: a workspace/_roslyn_openDocument notification with uri and text
\* reaches the client as a textDocument/didOpen with the same uri and text,
\* languageId csharp and version 1; one without uri or without text is
\* blocked, and nothing is written for it to the client or to the server.
OpenDocumentRewrite ==
    \A n \in 1..Len(from_server) :
        IsOpenDocument(n) =>
            IF HasUriAndText(n)
            THEN /\ piped_server[n].some
                 /\ DeliveredFor(n) \subseteq {ExpectedDidOpen(n)}
                 /\ Delivered(n) => DeliveredFor(n) # {}
            ELSE /\ ~piped_server[n].some
                 /\ DeliveredFor(n) = {}
                 /\ WritesFor("s2c", n) = <<>>
                 /\ ~(s_pc = "deliver" /\ s_deliver.cause = n)

\* An openDocument without text was blocked, and the one with uri and text
\* that followed has reached the client as a didOpen.
OpenDocumentWitness ==
    /\ Len(from_server) = 2
    /\ IsOpenDocument(1) /\ from_server[1].params.uri = UriA /\ ~HasUriAndText(1)
    /\ IsOpenDocument(2) /\ HasUriAndText(2)
    /\ Len(to_client) = 1 /\ to_client[1].cause = 2
    /\ to_client[1].msg.method = "textDocument/didOpen"
    /\ to_client[1].msg.params.tdVersion = 1
    /\ to_client[1].msg.params.text = "class A {}"

\* ---- C19
\* Client frame m leaves document u open: a didOpen for it, or a request on
\* it when it is a readable .cs file.
Opens(m, u) ==
    \/ /\ from_client[m].kind = "Notification"
       /\ from_client[m].method = "textDocument/didOpen"
       /\ from_client[m].params.tdUri = u
    \/ /\ from_client[m].kind = "Request"
       /\ from_client[m].params.tdUri = u
       /\ EndsWithCs(u) /\ u \in disk.readable

Closes(m, u) ==
    /\ from_client[m].kind = "Notification"
    /\ from_client[m].method = "textDocument/didClose"
    /\ from_client[m].params.tdUri = u

\* u is in the open-documents set when client frame n is read.
OpenBefore(n, u) ==
    \E m \in 1..(n - 1) :
        Opens(m, u) /\ \A j \in (m + 1)..(n - 1) : ~Closes(j, u)

\* The didOpen synthesized for u: languageId csharp, version 0, the text on disk.
SynthesizedDidOpen(u) ==
    Notification("textDocument/didOpen",
                 [ObjectV("languageId=csharp,text=disk") EXCEPT
                      !.tdUri = u, !.tdVersion = 0])

\* A client request on a readable .cs document.
RequestOnCs(n) ==
    /\ from_client[n].kind = "Request"
    /\ from_client[n].params.shape = "object"
    /\ EndsWithCs(from_client[n].params.tdUri)
    /\ from_client[n].params.tdUri \in disk.readable

\* C19: for a client request on a readable .cs document that is not in the
\* open-documents set, the server receives the synthesized didOpen right
\* before the forwarded request, and the document is in the set afterwards;
\* a request on a document that is in the set injects no didOpen.
OpenDocumentSynthesis ==
    \A n \in 1..Len(from_client) :
        RequestOnCs(n) =>
            LET u == from_client[n].params.tdUri IN
            IF ~OpenBefore(n, u)
            THEN /\ piped_client[n].responses = <<SynthesizedDidOpen(u)>>
                 /\ ClientDone(n) =>
                        \E j \in 2..Len(to_server) :
                            /\ to_server[j].by = "c2s" /\ to_server[j].cause = n
                            /\ to_server[j].role = "current"
                            /\ SameButId(to_server[j].msg, from_client[n])
                            /\ to_server[j - 1].by = "c2s"
                            /\ to_server[j - 1].cause = n
                            /\ to_server[j - 1].msg = SynthesizedDidOpen(u)
                 /\ n = Len(from_client) => u \in mw.opened_documents
            ELSE \A i \in 1..Len(piped_client[n].responses) :
                     piped_client[n].responses[i].method # "textDocument/didOpen"

\* Two requests on the same unopened document: the server has received the
\* didOpen, the first request and the second request, and nothing else.
OpenDocumentSynthesisWitness ==
    /\ Len(from_client) = 2 /\ RequestOnCs(1) /\ RequestOnCs(2)
    /\ c_pc = "read"
    /\ Len(to_server) = 3
    /\ to_server[1].msg = SynthesizedDidOpen(UriA)
    /\ to_server[2].msg.method = "textDocument/definition"
    /\ to_server[3].msg.method = "textDocument/definition"

\* ---- C20
IsNeedsRestoreNotification(n) ==
    from_server[n].kind = "Notification" /\ NeedsRestore(n, "U1")

IsRestoreComplete(n) ==
    /\ from_server[n].kind = "Notification"
    /\ from_server[n].method = "workspace/_roslyn_restoreComplete"
    /\ from_server[n].params.uuid = "U1"

\* No restore is under way when server frame n is read: every earlier
\* needsRestore has been followed by a restoreComplete.
NoRestoreUnderWay(n) ==
    \A m \in 1..(n - 1) :
        IsNeedsRestoreNotification(m) =>
            \E j \in (m + 1)..(n - 1) : IsRestoreComplete(j)

\* How many restores the frames before n started.
RestoresBefore(n) ==
    Cardinality({m \in 1..(n - 1) :
                     IsNeedsRestoreNotification(m) /\ NoRestoreUnderWay(m)})

\* C20: from a fresh proxy, a needsRestore notification read while no restore
\* for its UUID is under way injects one workspace/_roslyn_restore request,
\* the first with id 90000 and each later one with the next id; one read
\* while a restore is under way injects nothing; either way the notification
\* is blocked, and what was injected is what is written to the server.
RestoreCycle ==
    \A n \in 1..Len(from_server) :
        IsNeedsRestoreNotification(n) =>
            /\ ~piped_server[n].some
            /\ \A k \in 1..Len(to_client) : to_client[k].cause # n
            /\ ServerDone(n) =>
                   WritesFor("s2c", n) = SerializeAll(piped_server[n].responses)
            /\ IF NoRestoreUnderWay(n)
               THEN /\ Len(piped_server[n].responses) = 1
                    /\ piped_server[n].responses[1].kind = "Request"
                    /\ piped_server[n].responses[1].method = "workspace/_roslyn_restore"
                    /\ piped_server[n].responses[1].id = Number(90000 + RestoresBefore(n))
                    /\ piped_server[n].responses[1].params.uuid = "U1"
               ELSE piped_server[n].responses = <<>>

\* Scenario S5: needsRestore, needsRestore, restoreComplete, needsRestore;
\* the server has been sent the restore requests 90000 and 90001 and no other.
RestoreCycleWitness ==
    /\ Len(from_server) = 4 /\ s_pc = "read"
    /\ IsNeedsRestoreNotification(1) /\ IsNeedsRestoreNotification(2)
    /\ IsRestoreComplete(3) /\ IsNeedsRestoreNotification(4)
    /\ from_client = <<>>
    /\ Len(to_server) = 2
    /\ to_server[1].msg.id = Number(90000) /\ to_server[1].cause = 1
    /\ to_server[2].msg.id = Number(90001) /\ to_server[2].cause = 4

\* ---- C21
\* C21: in every state either loop can observe, client_to_server and
\* server_to_client are inverses of each other: c maps to s exactly when s
\* maps to c, so no pair is ever present in one direction only.
IdMappingCoherence ==
    /\ \A c \in DOMAIN id_mapper.client_to_server :
           LET s == id_mapper.client_to_server[c] IN
           /\ s \in DOMAIN id_mapper.server_to_client
           /\ id_mapper.server_to_client[s] = c
    /\ \A s \in DOMAIN id_mapper.server_to_client :
           LET c == id_mapper.server_to_client[s] IN
           /\ c \in DOMAIN id_mapper.client_to_server
           /\ id_mapper.client_to_server[c] = s

\* remove has taken one pair away while another pair is present and the
\* client loop stands between two of its awaits.
IdMappingCoherenceWitness ==
    /\ c_pc \in {"lock", "write"}
    /\ id_mapper.client_to_server # EmptyMap
    /\ \E j \in 1..Len(mapped) :
           mapped[j].client_id \notin DOMAIN id_mapper.client_to_server

\* ---- C22
\* C22: every id map_client_id returns is of the Number variant, the n-th
\* allocating call returns n whatever the variant of the client id, and the
\* first client request written to the server carries id 1.
SerialAllocation ==
    /\ \A j \in 1..Len(mapped) :
           /\ mapped[j].server_id.variant = "Number"
           /\ Fresh(j) =>
                  mapped[j].server_id =
                      Number(Cardinality({i \in 1..j : Fresh(i)}))
    /\ \A k \in 1..Len(to_server) :
           /\ to_server[k].by = "c2s" /\ to_server[k].role = "current"
           /\ to_server[k].msg.kind = "Request"
           /\ \A i \in 1..(k - 1) :
                  ~(/\ to_server[i].by = "c2s" /\ to_server[i].role = "current"
                    /\ to_server[i].msg.kind = "Request")
           => to_server[k].msg.id = Number(1)

\* The second allocation was made for a string client id and returned 2.
SerialAllocationWitness ==
    \E j \in 1..Len(mapped) :
        /\ Fresh(j)
        /\ mapped[j].client_id.variant = "String"
        /\ mapped[j].server_id = Number(2)

\* ---- C23
\* The optional members that are None in the message `mem` are not members
\* of the frame `wire` written for it.
OmitsAbsent(mem, wire) ==
    /\ \A f \in {"params", "result"} :
           mem.msg[f].shape = "absent" => wire.msg[f].shape = "absent"
    /\ mem.msg.error = "" => wire.msg.error = ""

\* C23: every frame the proxy writes, to the server or to the client, leaves
\* out each optional member (params, result, error) that is absent in the
\* message it is written for; a response with an error and no result is
\* written without a result member.
WireOmitsAbsent ==
    [][/\ Len(to_server') > Len(to_server) =>
              OmitsAbsent(IF c_pc = "write" THEN Head(c_queue) ELSE Head(s_queue),
                          to_server'[Len(to_server')])
       /\ Len(to_client') > Len(to_client) =>
              OmitsAbsent(s_deliver, to_client'[Len(to_client')])]_vars

\* ---- C24
Last(seq) == seq[Len(seq)]

\* The hook of middleware `name` for the direction `dir`.
HookOf(dir, name, message, st, d) ==
    IF dir = "client" THEN ClientHook(name, message, st, d)
    ELSE ServerHook(name, message, st)

\* The reference: the pipeline as a left fold.  After the first i
\* interceptors: the current message (the latest replacement, or the input),
\* the injections so far in interceptor order, the state, and whether a
\* Block or an error has ended the chain.
RECURSIVE FoldTo(_, _, _, _, _, _)
FoldTo(dir, mws, i, message, st, d) ==
    IF i = 0
    THEN [cur |-> message, inj |-> <<>>, st |-> st, stop |-> ""]
    ELSE LET p == FoldTo(dir, mws, i - 1, message, st, d)
             r == HookOf(dir, mws[i], p.cur, p.st, d)
             a == r.action
         IN
         IF p.stop # "" THEN p
         ELSE [cur |-> IF a.tag = "Replace" THEN a.msgs[1] ELSE p.cur,
               inj |-> IF a.tag \in {"Inject", "RespondAndContinue"}
                       THEN p.inj \o a.msgs ELSE p.inj,
               st |-> r.st,
               stop |-> IF a.tag \in {"Block", "Err"} THEN a.tag ELSE ""]

\* The fold over the whole pipeline for the frame a read step takes in.
ClientFold ==
    FoldTo("client", pipeline, Len(pipeline),
           Deserialize(Last(from_client')), mw, disk)
ServerFold ==
    FoldTo("server", pipeline, Len(pipeline),
           Deserialize(Last(from_server')), mw, disk)

\* C24: for every pipeline and every frame read, in either direction, when no
\* interceptor blocks or fails the pipeline returns the reference fold: each
\* interceptor is applied to the message as the latest earlier Replace left
\* it, the injected list is every Inject list and RespondAndContinue message
\* in interceptor order, the current message is the last replacement or the
\* input, and the interceptors' state is the fold's.
PipelineIsFold ==
    [][/\ (Len(from_client') > Len(from_client) /\ ClientFold.stop = "") =>
              /\ Last(piped_client').some
              /\ Last(piped_client').current = ClientFold.cur
              /\ Last(piped_client').responses = ClientFold.inj
              /\ mw' = ClientFold.st
       /\ (Len(from_server') > Len(from_server) /\ ServerFold.stop = "") =>
              /\ Last(piped_server').some
              /\ Last(piped_server').current = ServerFold.cur
              /\ Last(piped_server').responses = ServerFold.inj
              /\ mw' = ServerFold.st]_vars

\* A later interceptor acted on an earlier one's replacement: the pipeline
\* (CapabilityRegistration, diagnostics) turned a server request into a
\* response and then filled that response's null result.
PipelineIsFoldWitness ==
    /\ pipeline = <<"CapabilityRegistration", "diagnostics">>
    /\ \E n \in 1..Len(from_server) :
           /\ from_server[n].kind = "Request"
           /\ piped_server[n].current.kind = "Response"
           /\ piped_server[n].current.result = FullEmptyReport

\* Two interceptors injected for one client frame, and both injections were
\* written in interceptor order before the message.
PipelineInjectsTwice ==
    \E n \in 1..Len(from_client) :
        /\ Len(piped_client[n].responses) = 2
        /\ piped_client[n].responses[1] # piped_client[n].responses[2]
        /\ ClientDone(n)

\* ---- C25
\* The fields of MiddlewareNew that belong to the middleware called `name`.
StateOf(name) ==
    IF name = "DocumentLifecycle" THEN {"opened_documents"}
    ELSE IF name = "solution_loader"
    THEN {"workspace_root", "solution_opened", "pending_cs_files"}
    ELSE IF name = "ProjectRestore"
    THEN {"request_id", "in_progress", "pending_uuids"}
    ELSE IF name = "diagnostics" THEN {"diagnostic_requests"}
    ELSE {}

\* The position of the interceptor that returns Block for `message`, 0 when
\* none does.
BlockIndex(dir, mws, message, st, d) ==
    LET at == {i \in 1..Len(mws) :
                   /\ FoldTo(dir, mws, i, message, st, d).stop = "Block"
                   /\ FoldTo(dir, mws, i - 1, message, st, d).stop = ""}
    IN IF at = {} THEN 0 ELSE CHOOSE i \in at : TRUE

\* What C25 asks of a step that reads `message` in direction `dir` and has
\* interceptor i return Block: the result `r` is None with the injections of
\* the interceptors before i, and the interceptors after i keep their state.
BlockedAt(dir, i, message, r) ==
    /\ r.ok /\ ~r.some
    /\ r.responses = FoldTo(dir, pipeline, i - 1, message, mw, disk).inj
    /\ \A j \in (i + 1)..Len(pipeline) :
           \A f \in StateOf(pipeline[j]) : mw'[f] = mw[f]

\* C25: when interceptor i returns Block for a message, in either direction,
\* the hooks of the interceptors after i are not run for it (their state
\* stays as it was) and the pipeline returns no current message together
\* with the injections accumulated before i.
BlockStopsChain ==
    [][/\ Len(from_client') > Len(from_client) =>
              LET m == Deserialize(Last(from_client'))
                  i == BlockIndex("client", pipeline, m, mw, disk)
              IN i > 0 => BlockedAt("client", i, m, Last(piped_client'))
       /\ Len(from_server') > Len(from_server) =>
              LET m == Deserialize(Last(from_server'))
                  i == BlockIndex("server", pipeline, m, mw, disk)
              IN i > 0 => BlockedAt("server", i, m, Last(piped_server'))]_vars

\* The pipeline (custom-notifications, ProjectRestore) has read a needsRestore
\* notification: it was blocked by the first, and the second, which would
\* have started a restore, is still idle and has injected nothing.
BlockStopsChainWitness ==
    /\ pipeline = <<"custom-notifications", "ProjectRestore">>
    /\ \E n \in 1..Len(from_server) :
           /\ IsNeedsRestoreNotification(n)
           /\ ~piped_server[n].some
           /\ piped_server[n].responses = <<>>
    /\ ~mw.in_progress /\ mw.pending_uuids = {}

\* ---- C30
\* C30: when a hook fails for a client frame, the frame as read is written
\* to the server, with the id of a request mapped, and nothing else; when a
\* hook fails for a server frame, nothing is written to the server for it
\* and the frame as read goes to the client, a response under its client
\* id, unless it is a response with an unknown id, which is skipped as
\* usual.  The loops stay in their cycle.
InterceptorFailureRecoverable ==
    /\ \A n \in 1..Len(from_client) :
           (~piped_client[n].ok /\ ClientDone(n)) =>
               LET m == Deserialize(from_client[n])
                   w == WritesFor("c2s", n)
               IN
               /\ Len(w) = 1
               /\ IF m.kind = "Request"
                  THEN /\ SameButId(Serialize(m), w[1])
                       /\ \E j \in 1..Len(mapped) :
                              /\ mapped[j].client_id = m.id
                              /\ mapped[j].server_id = w[1].id
                  ELSE w[1] = Serialize(m)
    /\ \A n \in 1..Len(from_server) :
           (~piped_server[n].ok /\ ServerDone(n)) =>
               LET m == Deserialize(from_server[n]) IN
               /\ WritesFor("s2c", n) = <<>>
               /\ IF m.kind = "Response"
                  THEN \/ DeliveredFor(n) = {}
                       \/ /\ Cardinality(DeliveredFor(n)) = 1
                          /\ \A d \in DeliveredFor(n) :
                                 /\ SameButId(Serialize(m), d)
                                 /\ \E j \in ForwardsUnder(m.id) :
                                        from_client[to_server[j].cause].id = d.id
                  ELSE DeliveredFor(n) = {Serialize(m)}
    /\ status = "running"

\* A hook failed for a client request, which reached the server under a
\* mapped id; the loop went on and the request's answer, for which a hook
\* failed again, reached the client under the client's id.
InterceptorFailureWitness ==
    /\ \E n \in 1..Len(from_client) :
           /\ ~piped_client[n].ok /\ from_client[n].kind = "Request"
           /\ WritesFor("c2s", n) # <<>>
    /\ \E n \in 1..Len(from_server) :
           /\ ~piped_server[n].ok /\ from_server[n].kind = "Response"
           /\ DeliveredFor(n) # {}
           /\ \A d \in DeliveredFor(n) : d.id # from_server[n].id
    /\ Len(from_server) >= 2

\* ---- C26
\* The frame a server read step takes in is a needsRestore notification.
ReadsNeedsRestoreNotification ==
    /\ Len(from_server') > Len(from_server)
    /\ Last(from_server').kind = "Notification"
    /\ Last(from_server').method = "workspace/_roslyn_projectNeedsRestore"

ReadsRestoreComplete ==
    /\ Len(from_server') > Len(from_server)
    /\ Last(from_server').kind = "Notification"
    /\ Last(from_server').method = "workspace/_roslyn_restoreComplete"

\* The pipeline's result `r` injects exactly one workspace/_roslyn_restore
\* request.
InjectsOneRestore(r) ==
    /\ Len(r.responses) = 1
    /\ r.responses[1].kind = "Request"
    /\ r.responses[1].method = "workspace/_roslyn_restore"

\* C26: a needsRestore notification read while in_progress is false injects
\* exactly one restore request, whatever its UUID, and sets in_progress; one
\* read while in_progress is true injects nothing and leaves it true; a
\* restoreComplete clears in_progress.
RestoreStateMachine ==
    [][/\ (ReadsNeedsRestoreNotification /\ ~mw.in_progress) =>
              InjectsOneRestore(Last(piped_server')) /\ mw'.in_progress
       /\ (ReadsNeedsRestoreNotification /\ mw.in_progress) =>
              Last(piped_server').responses = <<>> /\ mw'.in_progress
       /\ ReadsRestoreComplete => ~mw'.in_progress]_vars

\* The run the claim names has not ended with the interceptor idle and the
\* last notification suppressed: needsRestore U1, needsRestore U2 (suppressed
\* during U1's restore), restoreComplete U1, needsRestore U2.
SuppressedUuidRestoredLater ==
    ~(/\ Len(from_server) = 4
      /\ from_server[1].method = "workspace/_roslyn_projectNeedsRestore"
      /\ from_server[1].params.uuid = "U1"
      /\ from_server[2].method = "workspace/_roslyn_projectNeedsRestore"
      /\ from_server[2].params.uuid = "U2"
      /\ from_server[3].method = "workspace/_roslyn_restoreComplete"
      /\ from_server[4].method = "workspace/_roslyn_projectNeedsRestore"
      /\ from_server[4].params.uuid = "U2"
      /\ piped_server[4].responses = <<>>
      /\ ~mw.in_progress)

\* ---- C27
IsNeedsRestoreRequest(n) ==
    /\ from_server[n].kind = "Request"
    /\ from_server[n].method = "workspace/_roslyn_projectNeedsRestore"

RequestVariantWritten ==
    \A n \in 1..Len(from_server) :
        IsNeedsRestoreRequest(n) =>
            /\ ~InjectsRestore(n)
            /\ piped_server[n].current.kind = "Response"
            /\ piped_server[n].current.id = from_server[n].id
            /\ piped_server[n].current.result \in
                   {NeededRestore(TRUE), NeededRestore(FALSE)}
            /\ DeliveredFor(n) = {}
            /\ ServerDone(n) =>
                   WritesFor("s2c", n) = <<Serialize(piped_server[n].current)>>

NeedsRestoreNeverReachesClient ==
    /\ \A k \in 1..Len(to_client) :
           /\ to_client[k].msg.method # "workspace/_roslyn_projectNeedsRestore"
           /\ from_server[to_client[k].cause].method #
                  "workspace/_roslyn_projectNeedsRestore"
    /\ s_deliver.msg.method # "workspace/_roslyn_projectNeedsRestore"
    /\ \A n \in 1..Len(from_server) :
           (from_server[n].kind = "Notification"
            /\ from_server[n].method = "workspace/_roslyn_projectNeedsRestore")
           => /\ ~piped_server[n].some
              /\ ServerDone(n) =>
                     WritesFor("s2c", n) = SerializeAll(piped_server[n].responses)

\* A needsRestore notification has injected a restore, which was written to
\* the server, and a needsRestore request has been answered; both are out of
\* the server loop's hands.
NeedsRestoreNeverReachesClientWitness ==
    /\ s_pc = "read"
    /\ \E n, m \in 1..Len(from_server) :
           /\ from_server[n].kind = "Notification" /\ NeedsRestore(n, "U2")
           /\ InjectsRestore(n) /\ WritesFor("s2c", n) # <<>>
           /\ IsNeedsRestoreRequest(m) /\ WritesFor("s2c", m) # <<>>

\* ---- C29
\* Client frame n is a request on a .cs URI for which no didOpen can be
\* built: the file is not readable (or the URI names no file).
UnreadableCsRequest(m) ==
    /\ m.kind = "Request"
    /\ extract_uri_from_request(m) # ""
    /\ EndsWithCs(extract_uri_from_request(m))
    /\ ~create_did_open_notification(extract_uri_from_request(m), disk)[1]

\* Such a request, once handled, has reached the server alone and as read,
\* but for its id.
SynthesisFailureForwards ==
    \A n \in 1..Len(from_client) :
        (UnreadableCsRequest(Deserialize(from_client[n])) /\ ClientDone(n)) =>
            LET w == WritesFor("c2s", n) IN
            /\ Len(w) = 1
            /\ SameButId(Serialize(Deserialize(from_client[n])), w[1])

\* C29: when the document-lifecycle interceptor cannot build the didOpen for
\* a client request's .cs URI that is not recorded as open, the pipeline
\* injects nothing, the open-documents set stays as it was, and the request
\* goes on to the server as usual.
SynthesisFailure ==
    /\ []SynthesisFailureForwards
    /\ [][(/\ Len(from_client') > Len(from_client)
           /\ UnreadableCsRequest(Deserialize(Last(from_client')))
           /\ extract_uri_from_request(Deserialize(Last(from_client')))
                  \notin mw.opened_documents)
          => /\ Last(piped_client').some
             /\ Last(piped_client').responses = <<>>
             /\ Last(piped_client').current = Deserialize(Last(from_client'))
             /\ mw'.opened_documents = mw.opened_documents]_vars

\* Two requests on the same unreadable .cs document have both been forwarded;
\* the second found the document still not recorded as open, and no didOpen
\* has been written.
SynthesisFailureWitness ==
    /\ Len(from_client) = 2 /\ c_pc = "read"
    /\ UnreadableCsRequest(Deserialize(from_client[1]))
    /\ UnreadableCsRequest(Deserialize(from_client[2]))
    /\ mw.opened_documents = {}
    /\ Len(to_server) = 2
    /\ \A k \in 1..Len(to_server) :
           to_server[k].msg.method # "textDocument/didOpen"

\* ---- C31
IsInitialized(n) ==
    from_client[n].kind = "Notification" /\ from_client[n].method = "initialized"

\* The workspace root is known when client frame n is read: an initialize
\* request naming it was read before.
RootKnown(n) ==
    \E m \in 1..(n - 1) : extract_workspace_root(Deserialize(from_client[m])) # ""

\* The frames at positions k, k+1, .. of to_server are the messages ms, all
\* written by the client loop for client frame n.
WrittenTogether(k, ms, n) ==
    /\ k + Len(ms) - 1 <= Len(to_server)
    /\ \A i \in 1..Len(ms) :
           /\ to_server[k + i - 1].msg = Serialize(ms[i])
           /\ to_server[k + i - 1].by = "c2s"
           /\ to_server[k + i - 1].cause = n

\* C31: once an initialized notification is handled, if the workspace root
\* is known and holds a valid solution with a .csproj, the server has been
\* written solution/open, project/open and initialized, one after the other
\* with nothing between, and nothing else for that frame; if no solution is
\* found, initialized alone.
SolutionLoadingOrder ==
    \A n \in 1..Len(from_client) :
        (IsInitialized(n) /\ ClientDone(n)) =>
            LET m == Deserialize(from_client[n])
                group == <<Notification("solution/open",
                                        ObjectV("solution=file:///ws/App.sln")),
                           Notification("project/open",
                                        ObjectV("projects=[file:///ws/App.csproj]")),
                           m>>
            IN
            /\ (RootKnown(n) /\ disk.solution = "valid") =>
                   /\ WritesFor("c2s", n) = SerializeAll(group)
                   /\ \E k \in 1..Len(to_server) : WrittenTogether(k, group, n)
            /\ (~RootKnown(n) \/ disk.solution = "none") =>
                   WritesFor("c2s", n) = <<Serialize(m)>>

\* initialize and then initialized were read with a valid solution on disk,
\* and the three notifications are on the server's input.
SolutionLoadingOrderWitness ==
    /\ disk.solution = "valid"
    /\ \E n \in 1..Len(from_client) :
           /\ IsInitialized(n) /\ RootKnown(n) /\ ClientDone(n)
           /\ Len(WritesFor("c2s", n)) = 3

\* ---- C32
\* The client loop waits in a write to the server whose pipe is full.
ClientWriteStalled ==
    c_pc = "write" /\ server_stdin = PipeCapacity

\* The server waits in a write to its output, so it does not read its input.
ServerWaitsToBeRead == server_stdout > PipeCapacity

\* The server loop waits for the server_writer lock that the client loop
\* holds.
ServerLoopWaitsForClientLoop == s_pc = "lock" /\ lock = "c2s"

\* C32: the server loop never has to wait for a write of the client loop, so
\* the router is never in a state where the client loop waits in a write to
\* the full input of the server, the server loop waits for the client loop,
\* and the server waits for its output to be read.
LoopsIndependent ==
    ~(ClientWriteStalled /\ ServerLoopWaitsForClientLoop /\ ServerWaitsToBeRead)

\* ---- C33
\* The positions on the server's input of the frames the client loop wrote
\* for client frame n.
GroupPositions(n) ==
    {k \in 1..Len(to_server) : to_server[k].by = "c2s" /\ to_server[k].cause = n}

\* C33: the injections of a client message and the message itself lie next
\* to each other on the server's input: no frame written by the server loop,
\* injection or local answer, lies between two frames of the group.
ClientGroupContiguous ==
    \A n \in 1..Len(from_client) :
        \A i \in GroupPositions(n), j \in GroupPositions(n) :
            \A k \in i..j : k \in GroupPositions(n)

\* The client loop has written the injected didOpen of a group of two and
\* still holds the lock for the request, while the server loop waits with a
\* frame of its own for the server; the server loop has written to the
\* server before.
ClientGroupContiguousWitness ==
    /\ c_pc = "write" /\ Len(c_queue) = 1 /\ lock = "c2s"
    /\ GroupPositions(Len(from_client)) # {}
    /\ s_pc = "lock" /\ s_queue # <<>>
    /\ \E k \in 1..Len(to_server) : to_server[k].by = "s2c"

\* ---- C34
\* The last step read a Response from the client.
ReadsClientResponse ==
    /\ Len(from_client') = Len(from_client) + 1
    /\ Last(from_client').kind = "Response"

\* C34: a server request that reaches the client carries the id the server
\* chose; a Response read from the client leaves the id mapper as it was and
\* is queued for the server alone, as it was read, id included.
ServerRequestIdsKept ==
    /\ [](\A k \in 1..Len(to_client) :
              to_client[k].msg.kind = "Request" =>
                  to_client[k].msg.id = from_server[to_client[k].cause].id)
    /\ [][ReadsClientResponse =>
              /\ id_mapper' = id_mapper
              /\ Len(c_queue') = 1
              /\ c_queue'[1].msg = Deserialize(Last(from_client'))
              /\ c_queue'[1].msg.id = Last(from_client').id]_vars

\* The server's request 1 has reached the client as request 1 and the
\* client's response 1 has reached the server as response 1, while the id
\* mapper holds server id 1 for a client request that is still unanswered.
ServerRequestIdsKeptWitness ==
    /\ \E k \in 1..Len(to_client) :
           to_client[k].msg.kind = "Request" /\ to_client[k].msg.id = Number(1)
    /\ \E k \in 1..Len(to_server) :
           /\ to_server[k].msg.kind = "Response" /\ to_server[k].by = "c2s"
           /\ to_server[k].msg.id = Number(1)
    /\ get_client_id(id_mapper, Number(1)) = Number(7)

\* ---- C40
\* The last step read a $/cancelRequest that names a client id the id mapper
\* holds a server id for.
ReadsCancelOfInFlight ==
    /\ Len(from_client') = Len(from_client) + 1
    /\ Last(from_client').kind = "Notification"
    /\ Last(from_client').method = "$/cancelRequest"
    /\ Last(from_client').params.id \in DOMAIN id_mapper.client_to_server

\* C40: a $/cancelRequest that names the client id of a request in flight is
\* queued for the server naming the server id the request was forwarded
\* under.
CancellationNamesServerId ==
    [][ReadsCancelOfInFlight =>
          /\ c_queue' # <<>>
          /\ Last(c_queue').msg.method = "$/cancelRequest"
          /\ Last(c_queue').msg.params.id =
                 id_mapper.client_to_server[Last(from_client').params.id]]_vars

\* A $/cancelRequest naming client id 7 is on the server's input while the
\* request with client id 7 is in flight under server id 1.
CancelOfInFlightWritten ==
    /\ \E k \in 1..Len(to_server) :
           /\ to_server[k].msg.method = "$/cancelRequest"
           /\ to_server[k].msg.params.id = Number(7)
    /\ get_client_id(id_mapper, Number(1)) = Number(7)

\* ---- C35
\* Frame k on the client's input is the delivery of a server response that
\* carried server id S.
DeliversResponse(k, S) ==
    /\ to_client[k].msg.kind = "Response"
    /\ from_server[to_client[k].cause].kind = "Response"
    /\ from_server[to_client[k].cause].id = S

\* C35: for each server id the id mapper allocated, at most one server
\* response with that id is written to the client.
AtMostOnceDelivery ==
    \A e \in 1..Len(mapped) :
        \A k1 \in 1..Len(to_client), k2 \in 1..Len(to_client) :
            (DeliversResponse(k1, mapped[e].server_id)
                 /\ DeliversResponse(k2, mapped[e].server_id)) => k1 = k2

\* The server has answered the same server id twice and both responses have
\* been handled: the first was written to the client, the second was not.
AtMostOnceDeliveryWitness ==
    /\ Len(from_server) = 2 /\ s_pc = "read"
    /\ from_server[1].kind = "Response" /\ from_server[2].kind = "Response"
    /\ from_server[1].id = from_server[2].id
    /\ \E k \in 1..Len(to_client) : to_client[k].cause = 1
    /\ \A k \in 1..Len(to_client) : to_client[k].cause # 2

\* ---- C36
\* C36: the id of a workspace/_roslyn_restore request the server loop is
\* about to write to the server is not, at the same time, a server id the id
\* mapper holds for a client request.
RestoreIdsPrivate ==
    \A i \in 1..Len(s_queue) :
        s_queue[i].msg.method = "workspace/_roslyn_restore" =>
            get_client_id(id_mapper, s_queue[i].msg.id) = NoId

\* A client request and an injected restore request are on the server's
\* input under the same id, and the one response the server gave for that id
\* has been written to the client.
RestoreAnswerMayReachClient ==
    /\ \E j \in 1..Len(to_server), k \in 1..Len(to_server) :
           /\ to_server[j].by = "c2s" /\ to_server[j].msg.kind = "Request"
           /\ to_server[k].msg.method = "workspace/_roslyn_restore"
           /\ to_server[j].msg.id = to_server[k].msg.id
           /\ j < k
    /\ \E k \in 1..Len(to_client) :
           /\ to_client[k].msg.kind = "Response"
           /\ from_server[to_client[k].cause].id = Number(FirstRestoreId)

\* ---- C37
\* Frame k on the server's input is a didOpen / a didClose for u.
ServerGetsDidOpen(k, u) ==
    /\ to_server[k].msg.kind = "Notification"
    /\ to_server[k].msg.method = "textDocument/didOpen"
    /\ to_server[k].msg.params.tdUri = u

ServerGetsDidClose(k, u) ==
    /\ to_server[k].msg.kind = "Notification"
    /\ to_server[k].msg.method = "textDocument/didClose"
    /\ to_server[k].msg.params.tdUri = u

\* The client itself keeps to the protocol: it sends no second didOpen for
\* a document without a didClose between.
ClientOpensOnce(u) ==
    \A m \in 1..Len(from_client), n \in 1..Len(from_client) :
        (/\ m < n
         /\ from_client[m].method = "textDocument/didOpen"
         /\ from_client[m].params.tdUri = u
         /\ from_client[n].method = "textDocument/didOpen"
         /\ from_client[n].params.tdUri = u) =>
            \E j \in (m + 1)..(n - 1) : Closes(j, u)

\* C37: for a client that keeps to the protocol, between two didOpen
\* notifications for a URI on the server's input there is a didClose for it.
NoDoubleOpen ==
    \A u \in Uris :
        ClientOpensOnce(u) =>
            \A i \in 1..Len(to_server), j \in 1..Len(to_server) :
                (i < j /\ ServerGetsDidOpen(i, u) /\ ServerGetsDidOpen(j, u)) =>
                    \E k \in (i + 1)..(j - 1) : ServerGetsDidClose(k, u)

\* The server has been written the didOpen the proxy synthesized for a
\* request and then the client's own didOpen for the same document.
ClientOpensAfterProxy ==
    \E i \in 1..Len(to_server), j \in 1..Len(to_server) :
        /\ i < j
        /\ to_server[i].msg = SynthesizedDidOpen(UriA)
        /\ ServerGetsDidOpen(j, UriA) /\ to_server[j].origin > 0

\* ---- C38
\* Frame k on the server's input is a client request on the readable .cs
\* document u.
ServerGetsRequestOn(k, u) ==
    /\ to_server[k].by = "c2s"
    /\ to_server[k].msg.kind = "Request"
    /\ to_server[k].msg.params.shape = "object"
    /\ to_server[k].msg.params.tdUri = u
    /\ EndsWithCs(u) /\ u \in disk.readable

\* C38: a client request on a readable .cs document is on the server's input
\* only after a didOpen for that document that no didClose follows before
\* the request.
OpenBeforeUse ==
    \A u \in Uris :
        \A k \in 1..Len(to_server) :
            ServerGetsRequestOn(k, u) =>
                \E i \in 1..(k - 1) :
                    /\ ServerGetsDidOpen(i, u)
                    /\ \A j \in (i + 1)..(k - 1) : ~ServerGetsDidClose(j, u)

\* The client's own didOpen was read before any solution was opened and is
\* held back, and a later request on the same document has been written to
\* the server.
RequestPassesHeldDidOpen ==
    /\ ~mw.solution_opened
    /\ Len(mw.pending_cs_files) = 1
    /\ mw.pending_cs_files[1].params.tdUri = UriA
    /\ \E k \in 1..Len(to_server) : ServerGetsRequestOn(k, UriA)

\* ---- C39
IsClientDidOpen(n) ==
    from_client[n].kind = "Notification"
    /\ from_client[n].method = "textDocument/didOpen"

\* The positions on the server's input of client frame n.
WritesOf(n) == {k \in 1..Len(to_server) : to_server[k].origin = n}

\* A didOpen read from the client is on the server's input at most once.
DidOpenAtMostOnce ==
    \A n \in 1..Len(from_client) :
        IsClientDidOpen(n) => Cardinality(WritesOf(n)) <= 1

\* The two sides have exchanged messages since client frame n was read: a
\* request the client sent later has been forwarded under an id not used
\* before, and the server loop has handled the server's response to it.
ExchangedSince(n) ==
    \E j \in 1..Len(to_server), m \in 1..Len(from_server) :
        /\ to_server[j].by = "c2s" /\ to_server[j].msg.kind = "Request"
        /\ to_server[j].origin > n
        /\ \A i \in 1..(j - 1) : to_server[i].msg.id # to_server[j].msg.id
        /\ from_server[m].kind = "Response"
        /\ from_server[m].id = to_server[j].msg.id
        /\ ServerDone(m)

\* C39: a didOpen read from the client is written to the server at most
\* once, and it is not held back any more once the two sides have exchanged
\* a request and its response after it.
DidOpenDeliveredOnce ==
    /\ DidOpenAtMostOnce
    /\ \A n \in 1..Len(from_client) :
           (IsClientDidOpen(n) /\ ExchangedSince(n)) => WritesOf(n) # {}

\* A didOpen is held back, the client has sent a request after it and has
\* been given the server's response, and the router waits for input on both
\* sides.
DidOpenStillHeld ==
    /\ held # <<>> /\ Len(mw.pending_cs_files) = Len(held)
    /\ ExchangedSince(held[1])
    /\ c_pc = "read" /\ s_pc = "read"
    /\ \E k \in 1..Len(to_client) : to_client[k].msg.kind = "Response"

====
